---- MODULE Spec2Model ----
(***************************************************************************)
(* ML-Research-RAG-Assistant: the citation codec (src/citations.py), the   *)
(* query router (src/router.py), retrieval and the abstention rule         *)
(* (src/retrieval.py), the chunker (src/chunking.py), the answer pipeline  *)
(* (src/pipeline.py) and batch indexing (scripts/index_papers.py).         *)
(*                                                                         *)
(* Text is a sequence of one-character strings, so that the regular        *)
(* expressions of the code are matched character by character.             *)
(***************************************************************************)
EXTENDS Integers, Sequences, FiniteSets, TLC

VARIABLES
    \* citation codec: format_citation / extract_citations
    c_pc, c_in, c_text, c_out, c_ids,
    \* router: route_query
    r_pc, r_question, r_route,
    \* abstention rule: should_abstain
    a_pc, a_retrieved, a_min, a_result, a_prev,
    \* answer_question
    pc, cfg, question, route, retrieved, prompt, response, llm_calls, result,
    \* the states of section 4.5 the run has been in, in order
    visited,
    \* _stable_chunk_id on two inputs
    h_pc, h_a, h_b, h_ids,
    \* chunk_pages
    k_pc, k_pages, k_cfg, k_page, k_current_section, k_section_name, k_tokens,
    k_start, k_global_idx, k_chunks,
    \* the windows chunk_pages has cut so far: page, start and end
    k_windows,
    \* retrieve
    t_pc, t_args, t_candidates, t_mmr_docs, t_out,
    \* scripts/index_papers.py: the configuration file, the papers directory,
    \* the sorted list of pdfs, the position of the for loop, the collection
    i_pc, i_cfg, i_papers, i_pdfs, i_n, i_store,
    \* the runs started, the pdfs added by this run in order, the
    \* collection this run alone would have filled, and the collection as
    \* this run found it
    i_runs, i_log, i_fresh, i_before

codecVars == <<c_pc, c_in, c_text, c_out, c_ids>>
routerVars == <<r_pc, r_question, r_route>>
abstainVars == <<a_pc, a_retrieved, a_min, a_result, a_prev>>
answerVars == <<pc, cfg, question, route, retrieved, prompt, response,
                llm_calls, result, visited>>
hashVars == <<h_pc, h_a, h_b, h_ids>>
chunkVars == <<k_pc, k_pages, k_cfg, k_page, k_current_section,
               k_section_name, k_tokens, k_start, k_global_idx, k_chunks,
               k_windows>>
retrieveVars == <<t_pc, t_args, t_candidates, t_mmr_docs, t_out>>
indexVars == <<i_pc, i_cfg, i_papers, i_pdfs, i_n, i_store, i_runs, i_log,
               i_fresh, i_before>>
vars == <<codecVars, routerVars, abstainVars, answerVars, hashVars, chunkVars,
          retrieveVars, indexVars>>

\* what each component leaves alone
notCodecVars == <<routerVars, abstainVars, answerVars, hashVars, chunkVars,
                  retrieveVars, indexVars>>
notRouterVars == <<codecVars, abstainVars, answerVars, hashVars, chunkVars,
                   retrieveVars, indexVars>>
notAbstainVars == <<codecVars, routerVars, answerVars, hashVars, chunkVars,
                    retrieveVars, indexVars>>
notAnswerVars == <<codecVars, routerVars, abstainVars, hashVars, chunkVars,
                   retrieveVars, indexVars>>
notHashVars == <<codecVars, routerVars, abstainVars, answerVars, chunkVars,
                 retrieveVars, indexVars>>
notChunkVars == <<codecVars, routerVars, abstainVars, answerVars, hashVars,
                  retrieveVars, indexVars>>
notIndexVars == <<codecVars, routerVars, abstainVars, answerVars, hashVars,
                  retrieveVars>>
notRetrieveVars == <<codecVars, routerVars, abstainVars, answerVars, hashVars,
                     chunkVars, indexVars>>

----------------------------------------------------------------------------
(* Characters and character classes of Python's re module (ASCII part).    *)

UpperLetters ==
    <<"A", "B", "C", "D", "E", "F", "G", "H", "I", "J", "K", "L", "M",
      "N", "O", "P", "Q", "R", "S", "T", "U", "V", "W", "X", "Y", "Z">>

LowerLetters ==
    <<"a", "b", "c", "d", "e", "f", "g", "h", "i", "j", "k", "l", "m",
      "n", "o", "p", "q", "r", "s", "t", "u", "v", "w", "x", "y", "z">>

DigitChars == <<"0", "1", "2", "3", "4", "5", "6", "7", "8", "9">>

Range(s) == {s[i] : i \in DOMAIN s}

\* \d
Digits == Range(DigitChars)

\* [0-9a-f]
HexLower == Digits \cup {"a", "b", "c", "d", "e", "f"}

\* \s, and the characters str.strip() removes
Whitespace == {" ", "\t", "\n", "\r", "\f"}

\* \w
WordChars == Range(UpperLetters) \cup Range(LowerLetters) \cup Digits \cup {"_"}

\* re.I: both sides are compared after case folding
Lower(c) ==
    IF \E i \in DOMAIN UpperLetters : UpperLetters[i] = c
    THEN LowerLetters[CHOOSE i \in DOMAIN UpperLetters : UpperLetters[i] = c]
    ELSE c

Upper(c) ==
    IF \E i \in DOMAIN LowerLetters : LowerLetters[i] = c
    THEN UpperLetters[CHOOSE i \in DOMAIN LowerLetters : LowerLetters[i] = c]
    ELSE c

RECURSIVE LowerText(_)
LowerText(t) ==
    IF t = <<>> THEN <<>> ELSE <<Lower(Head(t))>> \o LowerText(Tail(t))

RECURSIVE UpperText(_)
UpperText(t) ==
    IF t = <<>> THEN <<>> ELSE <<Upper(Head(t))>> \o UpperText(Tail(t))

\* every sequence over S of length at most n
RECURSIVE SeqsUpTo(_, _)
SeqsUpTo(S, n) ==
    IF n = 0 THEN {<<>>}
    ELSE LET shorter == SeqsUpTo(S, n - 1)
         IN  shorter \cup {Append(q, x) : q \in shorter, x \in S}

\* The index after the longest run of characters of S that starts at from.
RunEnd(t, from, S) ==
    LET run[j \in 1..(Len(t) + 1)] ==
            IF j <= Len(t) /\ t[j] \in S THEN run[j + 1] ELSE j
    IN  IF from > Len(t) THEN from ELSE run[from]

\* str.strip()
RECURSIVE LStrip(_)
LStrip(t) ==
    IF t # <<>> /\ Head(t) \in Whitespace THEN LStrip(Tail(t)) ELSE t

RECURSIVE RStrip(_)
RStrip(t) ==
    IF t # <<>> /\ t[Len(t)] \in Whitespace
    THEN RStrip(SubSeq(t, 1, Len(t) - 1))
    ELSE t

Strip(t) == RStrip(LStrip(t))

\* str(n) for n >= 0
RECURSIVE Str(_)
Str(n) ==
    IF n < 10 THEN <<DigitChars[n + 1]>>
    ELSE Str(n \div 10) \o <<DigitChars[(n % 10) + 1]>>

DigitValue(c) == (CHOOSE i \in DOMAIN DigitChars : DigitChars[i] = c) - 1

\* int(s) for a non-empty run of decimal digits
RECURSIVE ParseInt(_)
ParseInt(s) ==
    IF s = <<>> THEN 0
    ELSE 10 * ParseInt(SubSeq(s, 1, Len(s) - 1)) + DigitValue(s[Len(s)])

----------------------------------------------------------------------------
(* src/citations.py                                                        *)

\* the {12} of CIT_RE
ID_LEN == 12

CitedChunk(id, page) == [chunk_id |-> id, page_number |-> page]

\* CIT_RE.match at position i: the index after the match, 0 when there is
\* none. \s+ and \d+ are greedy and what follows each cannot be in its class,
\* so the match is decided without backtracking.
CitSepEnd(t, i) == RunEnd(t, i + ID_LEN + 1, Whitespace)

CitPageEnd(t, i) == RunEnd(t, CitSepEnd(t, i) + 2, Digits)

\* CIT_RE with \s* for \s+: the separator may be missing
CIT_RE_MatchEnd_optional_sep(t, i) ==
    IF /\ i + ID_LEN <= Len(t)
       /\ t[i] = "["
       /\ \A j \in (i + 1)..(i + ID_LEN) : t[j] \in HexLower
       /\ CitSepEnd(t, i) + 1 <= Len(t)
       /\ t[CitSepEnd(t, i)] = "p"
       /\ t[CitSepEnd(t, i) + 1] = "."
       /\ CitPageEnd(t, i) > CitSepEnd(t, i) + 2
       /\ CitPageEnd(t, i) <= Len(t)
       /\ t[CitPageEnd(t, i)] = "]"
    THEN CitPageEnd(t, i) + 1
    ELSE 0

CIT_RE_MatchEnd(t, i) ==
    IF /\ i + ID_LEN <= Len(t)
       /\ t[i] = "["
       /\ \A j \in (i + 1)..(i + ID_LEN) : t[j] \in HexLower
       /\ CitSepEnd(t, i) > i + ID_LEN + 1
       /\ CitSepEnd(t, i) + 1 <= Len(t)
       /\ t[CitSepEnd(t, i)] = "p"
       /\ t[CitSepEnd(t, i) + 1] = "."
       /\ CitPageEnd(t, i) > CitSepEnd(t, i) + 2
       /\ CitPageEnd(t, i) <= Len(t)
       /\ t[CitPageEnd(t, i)] = "]"
    THEN CitPageEnd(t, i) + 1
    ELSE 0

CIT_RE_Groups(t, i) ==
    CitedChunk(SubSeq(t, i + 1, i + ID_LEN),
               ParseInt(SubSeq(t, CitSepEnd(t, i) + 2, CitPageEnd(t, i) - 1)))

\* CIT_RE.finditer: left to right, the next search starts where a match ended
RECURSIVE CitScan(_, _)
CitScan(t, i) ==
    IF i > Len(t) THEN <<>>
    ELSE IF CIT_RE_MatchEnd(t, i) = 0 THEN CitScan(t, i + 1)
    ELSE <<CIT_RE_Groups(t, i)>> \o CitScan(t, CIT_RE_MatchEnd(t, i))

\* extract_citations with CIT_RE.match: only a marker at the start is found
extract_citations_anchored(text) ==
    IF CIT_RE_MatchEnd(text, 1) = 0 THEN <<>> ELSE <<CIT_RE_Groups(text, 1)>>

\* extract_citations dropping a marker it has already returned
extract_citations_distinct(text) ==
    LET all == CitScan(text, 1)
        RECURSIVE Keep(_)
        Keep(n) ==
            IF n = 0 THEN <<>>
            ELSE IF \E j \in 1..(n - 1) : all[j] = all[n] THEN Keep(n - 1)
            ELSE Append(Keep(n - 1), all[n])
    IN  Keep(Len(all))

extract_citations(text) == CitScan(text, 1)

\* format_citation with a space after "p."
format_citation_spaced(chunk_id, page_number) ==
    <<"[">> \o chunk_id \o <<" ", "p", ".", " ">> \o Str(page_number) \o <<"]">>

format_citation(chunk_id, page_number) ==
    <<"[">> \o chunk_id \o <<" ", "p", ".">> \o Str(page_number) \o <<"]">>

citation_ids(citations) == {citations[i].chunk_id : i \in DOMAIN citations}

----------------------------------------------------------------------------
(* Inputs of the citation codec.                                           *)

IdA == <<"a", "b", "c", "1", "2", "3", "d", "e", "f", "4", "5", "6">>
IdB == <<"d", "e", "f", "7", "8", "9", "a", "b", "c", "0", "1", "2">>
IdC == <<"1", "1", "1", "2", "2", "2", "3", "3", "3", "4", "4", "4">>
\* an id no stored chunk has
IdX == <<"f", "e", "d", "c", "b", "a", "6", "5", "4", "3", "2", "1">>

ChunkIds == {IdA, IdB, IdC, IdX}

\* page numbers go up to MaxPage
MaxPage == 12

Pages == 0..MaxPage

MarkerB7 == <<"[">> \o IdB \o <<" ", "p", ".", "7", "]">>

\* text placed before or after a formatted marker
Surroundings ==
    { <<>>,
      <<"S", "e", "e", " ">>,
      <<" ", "o", "n", " ", "p", ".", "3", ".">>,
      <<"[">>,
      <<"]">>,
      <<"7">>,
      <<"[">> \o IdA \o <<" ", "p", ".", "1">>,
      MarkerB7,
      MarkerB7 \o <<" ", "a", "n", "d", " ">> }

\* the parts of a would-be marker: "[" id separator tag digits close
NearIds ==
    { IdA,
      IdC,
      SubSeq(IdA, 1, 11),
      IdA \o <<"7">>,
      <<"a", "b", "c">>,
      UpperText(IdA),
      <<"a", "b", "c", "1", "2", "3", "d", "e", "g", "4", "5", "6">> }

NearSeparators ==
    { <<>>, <<" ">>, <<" ", " ">>, <<"\t">>, <<"\n">>, <<" ", "\t">>,
      <<"-">>, <<"_">> }

NearTags ==
    { <<"p", ".">>, <<"p">>, <<"P", ".">>, <<"p", "a", "g", "e", " ">>, <<>> }

NearPages == { <<>>, <<"5">>, <<"0", "5">>, <<"4", "2">>, <<"5", "a">> }

NearCloses == { <<"]">>, <<>>, <<" ", "]">> }

NearMarkerParts ==
    [id : NearIds, sep : NearSeparators, tag : NearTags, page : NearPages,
     close : NearCloses]

NearMarker(p) == <<"[">> \o p.id \o p.sep \o p.tag \o p.page \o p.close

\* the pieces an answer is composed of: a marker, or text without a marker
MarkerSegment(id, page) ==
    [kind |-> "marker", chunk_id |-> id, page_number |-> page]

TextSegment(t) == [kind |-> "text", text |-> t]

CitSegments ==
    { MarkerSegment(id, page) : id \in {IdA, IdB}, page \in {0, MaxPage} }
    \cup { TextSegment(t) :
              t \in { <<" ">>, <<"[">>, <<"]", " ", "a", "n", "d", " ">>,
                      <<"p", ".", "3">> } }

\* an answer has up to MaxSegments pieces
MaxSegments == 3

RECURSIVE SegmentsText(_)
SegmentsText(segs) ==
    IF segs = <<>> THEN <<>>
    ELSE (IF Head(segs).kind = "marker"
          THEN format_citation(Head(segs).chunk_id, Head(segs).page_number)
          ELSE Head(segs).text)
         \o SegmentsText(Tail(segs))

NoInput == [kind |-> "none"]

ComposeInput(segs) == [kind |-> "compose", segments |-> segs]

FormatInput(id, page, prefix, suffix) ==
    [kind |-> "format", chunk_id |-> id, page_number |-> page,
     prefix |-> prefix, suffix |-> suffix]

RawInput(p) == [kind |-> "raw", parts |-> p]

CodecIdle ==
    /\ c_pc = "idle"
    /\ c_in = NoInput
    /\ c_text = <<>>
    /\ c_out = <<>>
    /\ c_ids = {}

CodecInit ==
    /\ c_pc = "input"
    /\ c_in = NoInput
    /\ c_text = <<>>
    /\ c_out = <<>>
    /\ c_ids = {}

\* a caller formats (chunk_id, page_number) and embeds the marker in text
CodecFormat ==
    /\ c_pc = "input"
    /\ \E id \in ChunkIds, page \in Pages, prefix \in Surroundings,
          suffix \in Surroundings :
          /\ c_in' = FormatInput(id, page, prefix, suffix)
          /\ c_text' = prefix \o format_citation(id, page) \o suffix
    /\ c_pc' = "text"
    /\ UNCHANGED <<c_out, c_ids>>
    /\ UNCHANGED notCodecVars

\* an answer made of several markers and the text between them
CodecCompose ==
    /\ c_pc = "input"
    /\ \E segs \in SeqsUpTo(CitSegments, MaxSegments) :
          /\ c_in' = ComposeInput(segs)
          /\ c_text' = SegmentsText(segs)
    /\ c_pc' = "text"
    /\ UNCHANGED <<c_out, c_ids>>
    /\ UNCHANGED notCodecVars

\* text that was not produced by format_citation
CodecReceive ==
    /\ c_pc = "input"
    /\ \E p \in NearMarkerParts :
          /\ c_in' = RawInput(p)
          /\ c_text' = NearMarker(p)
    /\ c_pc' = "text"
    /\ UNCHANGED <<c_out, c_ids>>
    /\ UNCHANGED notCodecVars

CodecExtract ==
    /\ c_pc = "text"
    /\ c_out' = extract_citations(c_text)
    /\ c_pc' = "done"
    /\ UNCHANGED <<c_in, c_text, c_ids>>
    /\ UNCHANGED notCodecVars

\* the caller deduplicates the extracted markers
CodecIds ==
    /\ c_pc = "done"
    /\ c_ids' = citation_ids(c_out)
    /\ c_pc' = "ids"
    /\ UNCHANGED <<c_in, c_text, c_out>>
    /\ UNCHANGED notCodecVars


----------------------------------------------------------------------------
(* src/router.py                                                           *)

Modes == {"qa", "compare", "method_card", "claim_verify"}

Route(mode) == [mode |-> mode]

\* The alternatives of each pattern; vs\.? is the two alternatives vs and vs.
_COMPARE_PAT ==
    { <<"c", "o", "m", "p", "a", "r", "e">>,
      <<"v", "s">>,
      <<"v", "s", ".">>,
      <<"v", "e", "r", "s", "u", "s">>,
      <<"d", "i", "f", "f", "e", "r", "e", "n", "c", "e">>,
      <<"d", "i", "f", "f", "e", "r", "e", "n", "c", "e", "s">>,
      <<"s", "i", "m", "i", "l", "a", "r", "i", "t", "i", "e", "s">> }

_METHOD_PAT ==
    { <<"m", "e", "t", "h", "o", "d", " ", "c", "a", "r", "d">>,
      <<"s", "u", "m", "m", "a", "r", "i", "z", "e", " ", "m", "e", "t", "h", "o", "d">>,
      <<"a", "r", "c", "h", "i", "t", "e", "c", "t", "u", "r", "e">>,
      <<"p", "i", "p", "e", "l", "i", "n", "e">>,
      <<"t", "r", "a", "i", "n", "i", "n", "g", " ", "o", "b", "j", "e", "c", "t", "i", "v", "e">> }

_VERIFY_PAT ==
    { <<"v", "e", "r", "i", "f", "y">>,
      <<"i", "s", " ", "i", "t", " ", "t", "r", "u", "e">>,
      <<"d", "o", "e", "s", " ", "t", "h", "e", " ", "p", "a", "p", "e", "r", " ", "c", "l", "a", "i", "m">>,
      <<"e", "v", "i", "d", "e", "n", "c", "e", " ", "f", "o", "r">>,
      <<"s", "u", "p", "p", "o", "r", "t", " ", "t", "h", "e", " ", "c", "l", "a", "i", "m">>,
      <<"r", "e", "f", "u", "t", "e">> }

IsWordAt(q, k) == k \in 1..Len(q) /\ q[k] \in WordChars

\* \b before position i: exactly one of q[i-1], q[i] is a word character
WordBoundary(q, i) == IsWordAt(q, i - 1) # IsWordAt(q, i)

\* the literal alt matches q at position i, ignoring case (re.I)
LiteralAt(q, i, alt) ==
    /\ i + Len(alt) - 1 <= Len(q)
    /\ \A j \in 1..Len(alt) : Lower(q[i + j - 1]) = Lower(alt[j])

\* the patterns without \b: a trigger matches inside a longer word
PatMatchAt_substring(pat, q, i) ==
    \E alt \in pat : LiteralAt(q, i, alt)

\* \b(alt1|alt2|...)\b at position i
PatMatchAt(pat, q, i) ==
    \E alt \in pat :
        /\ WordBoundary(q, i)
        /\ LiteralAt(q, i, alt)
        /\ WordBoundary(q, i + Len(alt))

\* pattern.search(q)
Search(pat, q) == \E i \in 1..Len(q) : PatMatchAt(pat, q, i)

\* route_query with the compare test first
route_query_compare_first(text) ==
    LET q == Strip(text)
    IN  IF Search(_COMPARE_PAT, q) THEN Route("compare")
        ELSE IF Search(_VERIFY_PAT, q) THEN Route("claim_verify")
        ELSE IF Search(_METHOD_PAT, q) THEN Route("method_card")
        ELSE Route("qa")

route_query(text) ==
    LET q == Strip(text)
    IN  IF Search(_VERIFY_PAT, q) THEN Route("claim_verify")
        ELSE IF Search(_COMPARE_PAT, q) THEN Route("compare")
        ELSE IF Search(_METHOD_PAT, q) THEN Route("method_card")
        ELSE Route("qa")

----------------------------------------------------------------------------
(* Questions given to the router: up to two phrases, each in some          *)
(* casing, with text before, between and after them.                       *)

\* the strings the router documents as triggers, per mode
ListedTriggers(mode) ==
    CASE mode = "claim_verify" ->
           _VERIFY_PAT
      [] mode = "compare" ->
           _COMPARE_PAT \ {<<"v", "s", ".">>}
      [] mode = "method_card" ->
           _METHOD_PAT
      [] OTHER -> {}

AllTriggers ==
    ListedTriggers("claim_verify") \cup ListedTriggers("compare")
        \cup ListedTriggers("method_card")

Capitalize(w) == <<Upper(Head(w))>> \o Tail(w)

OtherWords ==
    { <<"E", "x", "p", "l", "a", "i", "n", " ", "t", "h", "e", " ", "a", "l", "g", "o", "r", "i", "t", "h", "m">>, <<"t", "h", "e", " ", "c", "o", "m", "p", "a", "r", "i", "s", "o", "n", " ", "b", "e", "t", "w", "e", "e", "n", " ", "A", " ", "a", "n", "d", " ", "B">>, <<"W", "h", "a", "t", " ", "i", "s", " ", "m", "a", "c", "h", "i", "n", "e", " ", "l", "e", "a", "r", "n", "i", "n", "g">> }

FirstPhrases ==
    AllTriggers \cup {UpperText(w) : w \in AllTriggers}
        \cup {Capitalize(w) : w \in AllTriggers} \cup OtherWords

SecondPhrases ==
    { <<>>, <<"v", "e", "r", "i", "f", "y">>, <<"C", "O", "M", "P", "A", "R", "E">>, <<"v", "s">>, <<"p", "i", "p", "e", "l", "i", "n", "e">>, <<"i", "n", "g">> }

Affixes == { <<>>, <<" ">>, <<"3">>, <<"_">>, <<"\n">> }

Questions ==
    { pre \o w1 \o mid \o w2 \o post :
        pre \in Affixes, w1 \in FirstPhrases,
        mid \in {<<>>, <<" ">>, <<"d", " ">>}, w2 \in SecondPhrases,
        post \in {<<>>, <<"s">>, <<"?", "\n">>} }

RouterIdle ==
    /\ r_pc = "idle"
    /\ r_question = <<>>
    /\ r_route = Route("none")

RouterInit ==
    /\ r_pc = "ask"
    /\ r_question \in Questions
    /\ r_route = Route("none")

RouterRoute ==
    /\ r_pc = "ask"
    /\ r_route' = route_query(r_question)
    /\ r_pc' = "routed"
    /\ UNCHANGED r_question
    /\ UNCHANGED notRouterVars


----------------------------------------------------------------------------
(* Rational numbers <<n, d>>, d > 0, in lowest terms: the floats of the    *)
(* retrieval layer (distances, similarities, thresholds).                  *)

RECURSIVE GCD(_, _)
GCD(a, b) == IF b = 0 THEN a ELSE GCD(b, a % b)

Abs(n) == IF n < 0 THEN -n ELSE n

Rat(n, d) ==
    LET g == GCD(Abs(n), d) IN <<n \div g, d \div g>>

RatLess(x, y) == x[1] * y[2] < y[1] * x[2]

Zero == Rat(0, 1)
One == Rat(1, 1)

\* max(x, y) of Python: y only when it is greater
RatMax(x, y) == IF RatLess(x, y) THEN y ELSE x

\* 1.0 / (1.0 + x) for x >= 0
RatRecipOnePlus(x) == Rat(x[2], x[2] + x[1])

----------------------------------------------------------------------------
(* src/retrieval.py                                                        *)

Retrieved(doc, score) == [doc |-> doc, score |-> score]

\* _distance_to_similarity without max(0.0, .)
_distance_to_similarity_unclamped(distance) == RatRecipOnePlus(distance)

_distance_to_similarity(distance) ==
    RatRecipOnePlus(RatMax(Zero, distance))

\* max(r.score for r in rs), rs non-empty
RECURSIVE MaxScore(_)
MaxScore(rs) ==
    IF Len(rs) = 1 THEN rs[1].score
    ELSE RatMax(MaxScore(SubSeq(rs, 1, Len(rs) - 1)), rs[Len(rs)].score)

\* should_abstain with <= for <
should_abstain_le(rs, min_similarity) ==
    IF rs = <<>> THEN TRUE
    ELSE ~RatLess(min_similarity, MaxScore(rs))

\* should_abstain with the comparison turned round
should_abstain_above(rs, min_similarity) ==
    IF rs = <<>> THEN TRUE
    ELSE RatLess(min_similarity, MaxScore(rs))

should_abstain(rs, min_similarity) ==
    IF rs = <<>> THEN TRUE
    ELSE RatLess(MaxScore(rs), min_similarity)

----------------------------------------------------------------------------
(* The indexed corpus: langchain Documents as chunks_to_documents builds   *)
(* them, each stored under its chunk_id.                                   *)

Document(id, file, page, section, content) ==
    [page_content |-> content,
     metadata |-> [chunk_id |-> id, source_file |-> file,
                   page_number |-> page, section_name |-> section]]

DocA == Document(IdA, "adam.pdf", 5, "Method", "Adam adapts the step size.")
DocB == Document(IdB, "sgd.pdf", 10, "Unknown", "SGD with momentum.")

\* the documents of the collection
Corpus == {DocA, DocB}

\* distances the store may report (cosine or L2 distance, one below zero
\* from rounding)
Distances == {Rat(-1, 2), Rat(1, 1), Rat(3, 1)}

\* the similarity a Retrieved item can carry: a converted distance, or the
\* 0.0 of a selected document missing from the candidates
Scores == {_distance_to_similarity(d) : d \in Distances} \cup {Zero}

\* values of retrieval.min_similarity in the configuration
Thresholds == {Rat(-1, 2), Zero, Rat(1, 4), Rat(1, 3), Rat(1, 2), One, Rat(3, 2)}

\* vs.similarity_search_with_score(query, k): at most k (document, distance)
\* pairs of distinct documents of the collection, nearest first. Which ones
\* depends on the query and the embeddings, which are not modelled.
Ascending(pairs) ==
    \A i \in 1..(Len(pairs) - 1) : ~RatLess(pairs[i + 1][2], pairs[i][2])

DistinctDocs(docs) ==
    \A i, j \in DOMAIN docs : i # j => docs[i] # docs[j]

similarity_search_with_score(k) ==
    { pairs \in SeqsUpTo(Corpus \X Distances, k) :
        /\ DistinctDocs([i \in DOMAIN pairs |-> pairs[i][1]])
        /\ Ascending(pairs) }

\* vs.max_marginal_relevance_search(query, k, fetch_k, lambda_mult): at most
\* k distinct documents, in the order the selection picked them
max_marginal_relevance_search(k) ==
    { docs \in SeqsUpTo(Corpus, k) : DistinctDocs(docs) }

\* cand_map.get(chunk_id, 0.0); a later candidate with the same id wins
RECURSIVE CandScore(_, _)
CandScore(cands, id) ==
    IF cands = <<>> THEN Zero
    ELSE IF cands[Len(cands)][1].metadata.chunk_id = id
         THEN _distance_to_similarity(cands[Len(cands)][2])
         ELSE CandScore(SubSeq(cands, 1, Len(cands) - 1), id)

\* the similarity of the candidate at the same position, not of the same id
RECURSIVE AttachScores_by_position(_, _)
AttachScores_by_position(cands, docs) ==
    IF docs = <<>> THEN <<>>
    ELSE <<Retrieved(Head(docs),
                     IF cands = <<>> THEN Zero
                     ELSE _distance_to_similarity(Head(cands)[2]))>>
             \o AttachScores_by_position(
                    IF cands = <<>> THEN <<>> ELSE Tail(cands), Tail(docs))

RECURSIVE AttachScores(_, _)
AttachScores(cands, docs) ==
    IF docs = <<>> THEN <<>>
    ELSE <<Retrieved(Head(docs), CandScore(cands, Head(docs).metadata.chunk_id))>>
             \o AttachScores(cands, Tail(docs))

RECURSIVE ConvertScores(_)
ConvertScores(pairs) ==
    IF pairs = <<>> THEN <<>>
    ELSE <<Retrieved(Head(pairs)[1], _distance_to_similarity(Head(pairs)[2]))>>
             \o ConvertScores(Tail(pairs))

\* the lists retrieve can return
retrieve(k, use_mmr, mmr_fetch_k) ==
    IF use_mmr
    THEN { AttachScores(cands, docs) :
             cands \in similarity_search_with_score(mmr_fetch_k),
             docs \in max_marginal_relevance_search(k) }
    ELSE { ConvertScores(pairs) : pairs \in similarity_search_with_score(k) }

----------------------------------------------------------------------------
(* should_abstain on its own: a retrieved list, evaluated under a          *)
(* threshold that is then raised.                                          *)

\* the longest retrieved list given to should_abstain
MaxRetrieved == 3

ScoredLists ==
    SeqsUpTo({Retrieved(d, sc) : d \in {DocA}, sc \in Scores}, MaxRetrieved)

\* a verdict of should_abstain under a threshold
Verdict(t, abstain) == [min |-> t, abstain |-> abstain]

AbstainIdle ==
    /\ a_pc = "idle"
    /\ a_retrieved = <<>>
    /\ a_min = Zero
    /\ a_result = FALSE
    /\ a_prev = <<>>

AbstainInit ==
    /\ a_pc = "start"
    /\ a_retrieved \in ScoredLists
    /\ a_min \in Thresholds
    /\ a_result = FALSE
    /\ a_prev = <<>>

AbstainEvaluate ==
    /\ a_pc = "start"
    /\ a_result' = should_abstain(a_retrieved, a_min)
    /\ a_pc' = "evaluated"
    /\ UNCHANGED <<a_retrieved, a_min, a_prev>>
    /\ UNCHANGED notAbstainVars

\* the same list under a threshold that is not lower
AbstainRaise ==
    /\ a_pc = "evaluated"
    /\ \E t \in Thresholds :
          /\ ~RatLess(t, a_min)
          /\ a_min' = t
          /\ a_result' = should_abstain(a_retrieved, t)
    /\ a_prev' = <<Verdict(a_min, a_result)>>
    /\ UNCHANGED <<a_pc, a_retrieved>>
    /\ UNCHANGED notAbstainVars


----------------------------------------------------------------------------
(* src/pipeline.py                                                         *)

ABSTAIN_SENTENCE ==
    <<"I", " ", "c", "a", "n", "n", "o", "t", " ", 
      "f", "i", "n", "d", " ", "e", "v", "i", "d", "e", "n", "c", "e", " ", "i", "n", " ", "t", "h", "e", " ", 
      "p", "r", "o", "v", "i", "d", "e", "d", " ", "p", "a", "p", "e", "r", "s", " ", 
      "t", "o", " ", "a", "n", "s", "w", "e", "r", " ", "t", "h", "a", "t", ".">>

AnswerResult(mode, answer, abstained, rs, cited_chunks) ==
    [mode |-> mode, answer |-> answer, abstained |-> abstained,
     retrieved |-> rs, cited_chunks |-> cited_chunks]

_doc_to_payload(r) ==
    [chunk_id |-> r.doc.metadata.chunk_id,
     source_file |-> r.doc.metadata.source_file,
     page_number |-> r.doc.metadata.page_number,
     section_name |-> r.doc.metadata.section_name,
     score |-> r.score,
     text |-> r.doc.page_content]

RECURSIVE Payloads(_)
Payloads(rs) ==
    IF rs = <<>> THEN <<>>
    ELSE <<_doc_to_payload(Head(rs))>> \o Payloads(Tail(rs))

\* one part per item of retrieved[:max_chunks]: the header fields and the text
ContextPart(r) ==
    [chunk_id |-> r.doc.metadata.chunk_id,
     source_file |-> r.doc.metadata.source_file,
     page_number |-> r.doc.metadata.page_number,
     section_name |-> r.doc.metadata.section_name,
     text |-> r.doc.page_content]

RECURSIVE ContextParts(_)
ContextParts(rs) ==
    IF rs = <<>> THEN <<>>
    ELSE <<ContextPart(Head(rs))>> \o ContextParts(Tail(rs))

Min(a, b) == IF a < b THEN a ELSE b

\* a context of every retrieved item
_build_context_all(rs, max_chunks) == ContextParts(rs)

\* _build_context: retrieved[:max_chunks]
_build_context(rs, max_chunks) ==
    ContextParts(SubSeq(rs, 1, Min(max_chunks, Len(rs))))

\* the template chosen for the routed mode, filled with context and question
Template(mode) ==
    IF mode = "compare" THEN "compare"
    ELSE IF mode = "method_card" THEN "method_card"
    ELSE IF mode = "claim_verify" THEN "claim_verify"
    ELSE "qa"

\* {chunk_id: doc for r in retrieved}.get(cid): the last item with the id,
\* NoDoc when there is none
NoDoc == [page_content |-> "", metadata |-> [chunk_id |-> <<>>]]

\* retrieved_map.get answering with the first retrieved document
retrieved_map_get_first(rs, cid) == IF rs = <<>> THEN NoDoc ELSE rs[1].doc

RECURSIVE retrieved_map_get(_, _)
retrieved_map_get(rs, cid) ==
    IF rs = <<>> THEN NoDoc
    ELSE IF rs[Len(rs)].doc.metadata.chunk_id = cid THEN rs[Len(rs)].doc
    ELSE retrieved_map_get(SubSeq(rs, 1, Len(rs) - 1), cid)

CitedPayload(cid, d) ==
    [chunk_id |-> cid,
     source_file |-> d.metadata.source_file,
     page_number |-> d.metadata.page_number,
     section_name |-> d.metadata.section_name,
     text |-> d.page_content]

\* the loop over cited_ids, taken in the order ids
RECURSIVE cited_payload(_, _)
cited_payload(rs, ids) ==
    IF ids = <<>> THEN <<>>
    ELSE IF retrieved_map_get(rs, Head(ids)) = NoDoc
         THEN cited_payload(rs, Tail(ids))
         ELSE <<CitedPayload(Head(ids), retrieved_map_get(rs, Head(ids)))>>
                  \o cited_payload(rs, Tail(ids))

\* the orders in which a Python set of strings may be iterated
Orderings(S) ==
    { q \in SeqsUpTo(S, Cardinality(S)) :
        Len(q) = Cardinality(S) /\ Range(q) = S }

\* the guard of the second return, and the two results after the model call
Ungrounded(resp, payload) ==
    Strip(resp) # ABSTAIN_SENTENCE /\ Len(payload) = 0

Grounding(mode, rs, resp, payload) ==
    IF Ungrounded(resp, payload)
    THEN AnswerResult(mode, ABSTAIN_SENTENCE, TRUE, Payloads(rs), <<>>)
    ELSE AnswerResult(mode, resp, FALSE, Payloads(rs), payload)

----------------------------------------------------------------------------
(* answer_question: the configuration, the question and what the external  *)
(* services return.                                                        *)

\* retrieval.k, retrieval.mmr.fetch_k and prompts.max_context_chunks go up
\* to MaxK
MaxK == 2

Configs ==
    { [k |-> k, use_mmr |-> m, fetch_k |-> f, min_similarity |-> t,
       max_context_chunks |-> c] :
        k \in 1..MaxK, m \in BOOLEAN, f \in 1..MaxK, t \in {Zero, Rat(1, 2)},
        c \in 1..MaxK }

AskedQuestions ==
    { <<"W", "h", "a", "t", " ", "i", "s", " ", "m", "a", "c", "h", "i", "n", "e", " ", "l", "e", "a", "r", "n", "i", "n", "g", "?">>,
      <<"C", "o", "m", "p", "a", "r", "e", " ", "A", "d", "a", "m", " ", "v", "s", " ", "S", "G", "D">>,
      <<"D", "e", "s", "c", "r", "i", "b", "e", " ", "t", "h", "e", " ", "a", "r", "c", "h", "i", "t", "e", "c", "t", "u", "r", "e">>,
      <<"V", "e", "r", "i", "f", "y", " ", "t", "h", "e", " ", "c", "o", "m", "p", "a", "r", "i", "s", "o", "n", " ", "b", "e", "t", "w", "e", "e", "n", " ", "A", " ", "a", "n", "d", " ", "B">> }

Said == <<"A", "d", "a", "m", " ", "w", "i", "n", "s", " ">>

\* what the language model may return
Responses ==
    { ABSTAIN_SENTENCE,
      <<" ">> \o ABSTAIN_SENTENCE \o <<"\n">>,
      ABSTAIN_SENTENCE \o <<" ">> \o format_citation(IdA, 5),
      <<>>,
      Said,
      Said \o format_citation(IdA, 5),
      Said \o format_citation(IdA, 99),
      Said \o format_citation(IdB, 10) \o format_citation(IdA, 5),
      format_citation(IdA, 5) \o format_citation(IdX, 1)
          \o format_citation(IdA, 5),
      Said \o format_citation(IdX, 3),
      <<"[">> \o IdA \o <<" ", "p", "a", "g", "e", " ", "5", "]">>,
      <<"[">> \o IdB \o <<"\t", "p", ".", "1", "0", "]">> }

NoResult == [abstained |-> "none"]
NoPrompt == [template |-> "none"]

AnswerIdle ==
    /\ pc = "idle"
    /\ cfg = [k |-> 0]
    /\ question = <<>>
    /\ route = Route("none")
    /\ retrieved = <<>>
    /\ prompt = NoPrompt
    /\ response = <<>>
    /\ llm_calls = 0
    /\ result = NoResult
    /\ visited = <<>>

\* load_config, build_prompts, the embeddings and the collection are set up
AnswerInit ==
    /\ pc = "START"
    /\ cfg \in Configs
    /\ question \in AskedQuestions
    /\ route = Route("none")
    /\ retrieved = <<>>
    /\ prompt = NoPrompt
    /\ response = <<>>
    /\ llm_calls = 0
    /\ result = NoResult
    /\ visited = <<"START">>

DoRoute ==
    /\ pc = "START"
    /\ route' = route_query(question)
    /\ pc' = "ROUTED"
    /\ visited' = Append(visited, "ROUTED")
    /\ UNCHANGED <<cfg, question, retrieved, prompt, response, llm_calls,
                   result>>
    /\ UNCHANGED notAnswerVars

DoRetrieve ==
    /\ pc = "ROUTED"
    /\ retrieved' \in retrieve(cfg.k, cfg.use_mmr, cfg.fetch_k)
    /\ pc' = "RETRIEVED"
    /\ visited' = Append(visited, "RETRIEVED")
    /\ UNCHANGED <<cfg, question, route, prompt, response, llm_calls, result>>
    /\ UNCHANGED notAnswerVars

\* the first return: should_abstain(retrieved, min_similarity) is true
AbstainNoEvidence ==
    /\ pc = "RETRIEVED"
    /\ should_abstain(retrieved, cfg.min_similarity)
    /\ result' = AnswerResult(route.mode, ABSTAIN_SENTENCE, TRUE,
                              Payloads(retrieved), <<>>)
    /\ pc' = "DONE"
    /\ visited' = Append(visited, "ABSTAINED_NO_EVIDENCE")
    /\ UNCHANGED <<cfg, question, route, retrieved, prompt, response,
                   llm_calls>>
    /\ UNCHANGED notAnswerVars

\* Generate without the early return before it
Generate_unguarded ==
    /\ pc = "RETRIEVED"
    /\ prompt' = [template |-> Template(route.mode),
                  context |-> _build_context(retrieved, cfg.max_context_chunks),
                  question |-> question]
    /\ llm_calls' = llm_calls + 1
    /\ response' \in Responses
    /\ pc' = "GENERATED"
    /\ visited' = Append(visited, "GENERATED")
    /\ UNCHANGED <<cfg, question, route, retrieved, result>>
    /\ UNCHANGED notAnswerVars

\* the context and the prompt are built and llm.invoke(prompt) returns
Generate ==
    /\ pc = "RETRIEVED"
    /\ ~should_abstain(retrieved, cfg.min_similarity)
    /\ prompt' = [template |-> Template(route.mode),
                  context |-> _build_context(retrieved, cfg.max_context_chunks),
                  question |-> question]
    /\ llm_calls' = llm_calls + 1
    /\ response' \in Responses
    /\ pc' = "GENERATED"
    /\ visited' = Append(visited, "GENERATED")
    /\ UNCHANGED <<cfg, question, route, retrieved, result>>
    /\ UNCHANGED notAnswerVars

\* the state a run ends in after generation: the second return is
\* ABSTAINED_UNGROUNDED, the third return is GROUNDED
Outcome(resp, payload) ==
    IF Ungrounded(resp, payload) THEN "ABSTAINED_UNGROUNDED" ELSE "GROUNDED"

\* the markers whose page is the page of the retrieved chunk they name
PageMatched(citations, rs) ==
    LET matched(c) ==
            \E j \in DOMAIN rs :
                /\ rs[j].doc.metadata.chunk_id = c.chunk_id
                /\ rs[j].doc.metadata.page_number = c.page_number
    IN  SelectSeq(citations, matched)

\* Ground resolving only the markers that name the page of their chunk
Ground_checks_page ==
    /\ pc = "GENERATED"
    /\ \E ids \in Orderings(citation_ids(
                      PageMatched(extract_citations(response), retrieved))) :
          /\ result' = Grounding(route.mode, retrieved, response,
                                 cited_payload(retrieved, ids))
          /\ visited' =
                 Append(visited,
                        Outcome(response, cited_payload(retrieved, ids)))
    /\ pc' = "DONE"
    /\ UNCHANGED <<cfg, question, route, retrieved, prompt, response,
                   llm_calls>>
    /\ UNCHANGED notAnswerVars

\* Ground asking the model again, once, when nothing cited was retrieved
Ground_retries ==
    /\ pc = "GENERATED"
    /\ \E ids \in Orderings(citation_ids(extract_citations(response))) :
          IF Ungrounded(response, cited_payload(retrieved, ids))
             /\ llm_calls < 2
          THEN /\ result' = result
               /\ pc' = "RETRIEVED"
               /\ visited' = Append(visited, "RETRIEVED")
          ELSE /\ result' = Grounding(route.mode, retrieved, response,
                                      cited_payload(retrieved, ids))
               /\ pc' = "DONE"
               /\ visited' =
                      Append(visited,
                             Outcome(response, cited_payload(retrieved, ids)))
    /\ UNCHANGED <<cfg, question, route, retrieved, prompt, response,
                   llm_calls>>
    /\ UNCHANGED notAnswerVars

\* citations are extracted and resolved; the second or the third return
Ground ==
    /\ pc = "GENERATED"
    /\ \E ids \in Orderings(citation_ids(extract_citations(response))) :
          /\ result' = Grounding(route.mode, retrieved, response,
                                 cited_payload(retrieved, ids))
          /\ visited' =
                 Append(visited,
                        Outcome(response, cited_payload(retrieved, ids)))
    /\ pc' = "DONE"
    /\ UNCHANGED <<cfg, question, route, retrieved, prompt, response,
                   llm_calls>>
    /\ UNCHANGED notAnswerVars

----------------------------------------------------------------------------
(* src/chunking.py: _stable_chunk_id                                       *)

\* hashlib.sha1 of the bytes it was fed, hexdigest()[:12]. The truncated
\* digest is taken as collision-free: it is represented by the bytes that
\* were hashed, so two digests are equal exactly when those bytes are.
Sha1Hex12(bytes) == [sha1_of |-> bytes]

\* The five h.update calls feed the fields one after the other; the text is
\* ASCII, so encode("utf-8") gives one byte per character.
_stable_chunk_id(file_path, page_number, section_name, idx, text) ==
    Sha1Hex12(file_path \o Str(page_number) \o section_name \o Str(idx)
              \o text)

\* fields of two chunks to compare
PathA == <<"d", "/", "a", ".", "p", "d", "f">>
PathB == <<"d", "/", "b", ".", "p", "d", "f">>

IdFields ==
    [file_path : {PathA, PathB},
     page_number : {1, 11},
     section_name : {<<"A">>, <<"1", "A">>},
     idx : {0, 1, 10},
     text : {<<"x">>, <<"0", "x">>}]

NoFields == [file_path |-> <<>>]

HashIdle ==
    /\ h_pc = "idle"
    /\ h_a = NoFields
    /\ h_b = NoFields
    /\ h_ids = <<>>

HashInit ==
    /\ h_pc = "input"
    /\ h_a \in IdFields
    /\ h_b \in IdFields
    /\ h_ids = <<>>

StableId(f) ==
    _stable_chunk_id(f.file_path, f.page_number, f.section_name, f.idx,
                     f.text)

\* the ids of both inputs
HashBoth ==
    /\ h_pc = "input"
    /\ h_ids' = <<StableId(h_a), StableId(h_b)>>
    /\ h_pc' = "done"
    /\ UNCHANGED <<h_a, h_b>>
    /\ UNCHANGED notHashVars

----------------------------------------------------------------------------
(* src/chunking.py: chunk_pages                                            *)

Letters == Range(UpperLetters) \cup Range(LowerLetters)

Max(a, b) == IF a < b THEN b ELSE a

\* tiktoken's cl100k_base, reduced to its splitting of the text into pieces,
\* each piece taken as one token: a run of letters with at most one leading
\* character that is no letter, digit or line break; up to three digits; or
\* any other single character. The index after the token that starts at i.
TokenEnd(t, i) ==
    IF t[i] \in Letters THEN RunEnd(t, i, Letters)
    ELSE IF /\ t[i] \notin Digits \cup {"\r", "\n"}
            /\ i + 1 <= Len(t)
            /\ t[i + 1] \in Letters
         THEN RunEnd(t, i + 1, Letters)
    ELSE IF t[i] \in Digits THEN Min(RunEnd(t, i, Digits), i + 3)
    ELSE i + 1

\* the tokens of t from index i on, cut one after the other: after[j, n] is
\* the index after the next n tokens from j and next[j, n] those tokens. A
\* run of n tokens is taken as its two halves, which keeps the evaluation of
\* a long text shallow.
Tokenize(t, i) ==
    LET after[j \in 1..(Len(t) + 1), n \in 0..Len(t)] ==
            IF n = 0 \/ j > Len(t) THEN j
            ELSE IF n = 1 THEN TokenEnd(t, j)
            ELSE after[after[j, n \div 2], n - (n \div 2)]
        next[j \in 1..(Len(t) + 1), n \in 0..Len(t)] ==
            IF n = 0 \/ j > Len(t) THEN <<>>
            ELSE IF n = 1 THEN <<SubSeq(t, j, TokenEnd(t, j) - 1)>>
            ELSE next[j, n \div 2]
                 \o next[after[j, n \div 2], n - (n \div 2)]
    IN  next[i, Len(t)]

\* enc.encode
enc_encode(text) == Tokenize(text, 1)

\* enc.decode
\* the pieces of the tokens, joined; the halves are joined separately,
\* which keeps the evaluation of a long window shallow
enc_decode(tokens) ==
    LET joined[lo \in 1..(Len(tokens) + 1), hi \in 0..Len(tokens)] ==
            IF lo > hi THEN <<>>
            ELSE IF lo = hi THEN tokens[lo]
            ELSE joined[lo, (lo + hi) \div 2]
                 \o joined[((lo + hi) \div 2) + 1, hi]
    IN  joined[1, Len(tokens)]

PageText(file_path, page_number, text, detected_headings) ==
    [file_path |-> file_path, page_number |-> page_number, text |-> text,
     detected_headings |-> detected_headings]

\* file_path.split("/")[-1]
RECURSIVE Basename(_)
Basename(p) ==
    IF \E i \in DOMAIN p : p[i] = "/" THEN Basename(Tail(p)) ELSE p

Chunk(file_path, page_number, section_name, idx, text) ==
    [chunk_id |->
         _stable_chunk_id(file_path, page_number, section_name, idx, text),
     text |-> text,
     metadata |-> [source_file |-> Basename(file_path),
                   source_path |-> file_path,
                   page_number |-> page_number,
                   section_name |-> section_name,
                   chunk_index |-> idx]]

\* _pick_section_name taking the last heading of the page
_pick_section_name_last(prev_section, headings) ==
    IF headings = <<>> THEN prev_section ELSE headings[Len(headings)]

_pick_section_name(prev_section, headings) ==
    IF headings = <<>> THEN prev_section ELSE headings[1]

\* _heading_numbered = ^\s*(\d+(\.\d+)*)\s+(.+)$ matched at the start of s.
\* The index after the longest \d+(\.\d+)* whose digits end at j - 1.
RECURSIVE OutlineEnd(_, _)
OutlineEnd(s, j) ==
    IF j + 1 <= Len(s) /\ s[j] = "." /\ s[j + 1] \in Digits
    THEN OutlineEnd(s, RunEnd(s, j + 1, Digits))
    ELSE j

NumberStart(s) == RunEnd(s, 1, Whitespace)

NumberEnd(s) == OutlineEnd(s, RunEnd(s, NumberStart(s), Digits))

\* where group 3 starts: \s+ is greedy, and giving whitespace back to .+
\* cannot turn a failed match into a match
Group3Start(s) == RunEnd(s, NumberEnd(s), Whitespace)

\* . matches no line break, and $ is the end of s (s never ends in one here)
_heading_numbered_match(s) ==
    /\ RunEnd(s, NumberStart(s), Digits) > NumberStart(s)
    /\ Group3Start(s) > NumberEnd(s)
    /\ Group3Start(s) <= Len(s)
    /\ \A q \in Group3Start(s)..Len(s) : s[q] # "\n"

_clean_heading(h) ==
    IF _heading_numbered_match(Strip(h))
    THEN Strip(SubSeq(Strip(h), Group3Start(Strip(h)), Len(Strip(h))))
    ELSE Strip(h)

ChunkConfig(chunk_tokens, chunk_overlap_tokens, min_chunk_tokens) ==
    [chunk_tokens |-> chunk_tokens,
     chunk_overlap_tokens |-> chunk_overlap_tokens,
     min_chunk_tokens |-> min_chunk_tokens]

\* tokens[start:end] of the page at position page in the list of pages,
\* len being len(tokens)
Window(page, start, end, len) ==
    [page |-> page, start |-> start, end |-> end, len |-> len]

\* chunk_pages is followed for at most MaxWindows windows
MaxWindows == 100

\* the end of the window without the extension to min_chunk_tokens
WindowEnd_unextended(tokens, start, c) ==
    Min(start + c.chunk_tokens, Len(tokens))

\* the window of tokens that starts at start (0-based, as in the code): its
\* end, moved to min_chunk_tokens when the window is short and not the last
WindowEnd(tokens, start, c) ==
    LET end == Min(start + c.chunk_tokens, Len(tokens))
    IN  IF end - start < c.min_chunk_tokens /\ end # Len(tokens)
        THEN Min(start + c.min_chunk_tokens, Len(tokens))
        ELSE end

\* a next start that keeps chunk_tokens instead of chunk_overlap_tokens
NextStart_keeps_window(end, c) == Max(0, end - c.chunk_tokens)

\* a next start at the end of the window
NextStart_without_overlap(end, c) == end

\* start = max(0, end - chunk_overlap_tokens)
NextStart(end, c) == Max(0, end - c.chunk_overlap_tokens)

\* the text of the window without .strip()
WindowText_unstripped(tokens, start, c) ==
    enc_decode(SubSeq(tokens, start + 1, WindowEnd(tokens, start, c)))

\* enc.decode(window).strip()
WindowText(tokens, start, c) ==
    Strip(enc_decode(SubSeq(tokens, start + 1, WindowEnd(tokens, start, c))))

Unknown == <<"U", "n", "k", "n", "o", "w", "n">>

\* heading candidates
HeadMethods == <<"2", ".", "1", " ", "M", "e", "t", "h", "o", "d", "s">>
HeadOther == <<"O", "t", "h", "e", "r">>
HeadResults == <<"R", "E", "S", "U", "L", "T", "S">>
HeadSetup == <<"2", ".", " ", "S", "e", "t", "u", "p">>
HeadData == <<"3", " ", "D", "a", "t", "a">>

\* pages a document is made of: text and detected headings. LongText
\* is cut by chunk_tokens = 2 into eleven chunks, "0b" the second and "b"
\* the eleventh.
LongText ==
    <<"x", " ", "x", "0", "b", " ", "x", " ", "x", " ", "x", " ", "x", " ",
      "x", " ", "x", " ", "x", " ", "x", " ", "x", " ", "x", " ", "x", " ",
      "x", " ", "x", " ", "x", " ", "x", " ", "x", " ", "b">>

PagePool ==
    { [text |-> <<>>, detected_headings |-> <<HeadData>>],
      [text |-> <<" ", "\n", " ">>, detected_headings |-> <<>>],
      [text |-> <<"a", " ", "b">>,
       detected_headings |-> <<HeadMethods, HeadOther>>],
      [text |-> <<"c", " ", " ", "d", " ", "e">>,
       detected_headings |-> <<HeadResults>>],
      [text |-> <<"g", " ", "h", " ", "i">>, detected_headings |-> <<>>],
      [text |-> LongText, detected_headings |-> <<HeadSetup>>] }

\* a document has up to MaxDocPages pages
MaxDocPages == 3

\* extract_pdf_pages numbers the pages of one file from 1
RECURSIVE NumberPages(_, _)
NumberPages(sel, n) ==
    IF sel = <<>> THEN <<>>
    ELSE <<PageText(PathA, n, Head(sel).text, Head(sel).detected_headings)>>
         \o NumberPages(Tail(sel), n + 1)

Docs == { NumberPages(sel, 1) : sel \in SeqsUpTo(PagePool, MaxDocPages) }

\* chunk_tokens >= 1, 0 <= chunk_overlap_tokens < chunk_tokens and
\* min_chunk_tokens >= 0, below and above chunk_tokens
ChunkConfigs ==
    { ChunkConfig(1, 0, 1), ChunkConfig(2, 0, 1), ChunkConfig(2, 1, 0),
      ChunkConfig(3, 1, 2), ChunkConfig(2, 1, 3) }

\* test_chunk_overlap: one page of text_tokens tokens, the word repeated
text_tokens == 500

RECURSIVE Repeat(_, _)
Repeat(t, n) ==
    IF n = 0 THEN <<>>
    ELSE LET half == Repeat(t, n \div 2)
         IN  IF n % 2 = 0 THEN half \o half ELSE half \o half \o t

OverlapTestPages ==
    <<PageText(PathA, 1,
               <<"w", "o", "r", "d">>
                   \o Repeat(<<" ", "w", "o", "r", "d">>, text_tokens - 1),
               <<>>)>>

OverlapTestConfig == ChunkConfig(100, 30, 50)

ChunkIdle ==
    /\ k_pc = "idle"
    /\ k_pages = <<>>
    /\ k_cfg = <<>>
    /\ k_page = 0
    /\ k_current_section = <<>>
    /\ k_section_name = <<>>
    /\ k_tokens = <<>>
    /\ k_start = 0
    /\ k_global_idx = 0
    /\ k_chunks = <<>>
    /\ k_windows = <<>>

ChunkInit ==
    /\ k_pc = "page"
    /\ \/ k_pages \in Docs /\ k_cfg \in ChunkConfigs
       \/ k_pages = OverlapTestPages /\ k_cfg = OverlapTestConfig
    /\ k_page = 0
    /\ k_current_section = Unknown
    /\ k_section_name = <<>>
    /\ k_tokens = <<>>
    /\ k_start = 0
    /\ k_global_idx = 0
    /\ k_chunks = <<>>
    /\ k_windows = <<>>

\* chunk_pages with an index that starts again at 0 on every page
ChunkNextPage_resets_index ==
    /\ k_pc = "page"
    /\ k_page < Len(k_pages)
    /\ LET page == k_pages[k_page + 1]
           section ==
               _pick_section_name(k_current_section, page.detected_headings)
       IN  /\ k_page' = k_page + 1
           /\ k_current_section' = section
           /\ k_section_name' = _clean_heading(section)
           /\ k_tokens' = enc_encode(page.text)
           /\ k_start' = 0
           /\ k_pc' = IF enc_encode(page.text) = <<>> THEN "page" ELSE "window"
    /\ k_global_idx' = 0
    /\ UNCHANGED <<k_pages, k_cfg, k_chunks, k_windows>>
    /\ UNCHANGED notChunkVars

\* the head of the for loop: the section of the page and its tokens; a page
\* without tokens is skipped
ChunkNextPage ==
    /\ k_pc = "page"
    /\ k_page < Len(k_pages)
    /\ LET page == k_pages[k_page + 1]
           section ==
               _pick_section_name(k_current_section, page.detected_headings)
       IN  /\ k_page' = k_page + 1
           /\ k_current_section' = section
           /\ k_section_name' = _clean_heading(section)
           /\ k_tokens' = enc_encode(page.text)
           /\ k_start' = 0
           /\ k_pc' = IF enc_encode(page.text) = <<>> THEN "page" ELSE "window"
    /\ UNCHANGED <<k_pages, k_cfg, k_global_idx, k_chunks, k_windows>>
    /\ UNCHANGED notChunkVars

\* one pass of the while loop: the window at k_start, its chunk when the
\* stripped text is not empty, then break at the end of the page or move on
ChunkWindow ==
    /\ k_pc = "window"
    /\ k_start < Len(k_tokens)
    /\ Len(k_windows) < MaxWindows
    /\ LET end == WindowEnd(k_tokens, k_start, k_cfg)
           text == WindowText(k_tokens, k_start, k_cfg)
           page == k_pages[k_page]
       IN  /\ k_windows' =
                 Append(k_windows, Window(k_page, k_start, end, Len(k_tokens)))
           /\ IF text # <<>>
              THEN /\ k_chunks' =
                        Append(k_chunks,
                               Chunk(page.file_path, page.page_number,
                                     k_section_name, k_global_idx, text))
                   /\ k_global_idx' = k_global_idx + 1
              ELSE UNCHANGED <<k_chunks, k_global_idx>>
           /\ IF end = Len(k_tokens)
              THEN /\ k_pc' = "page"
                   /\ k_start' = k_start
              ELSE /\ k_pc' = "window"
                   /\ k_start' = NextStart(end, k_cfg)
    /\ UNCHANGED <<k_pages, k_cfg, k_page, k_current_section, k_section_name,
                   k_tokens>>
    /\ UNCHANGED notChunkVars

\* the for loop is over: return chunks
ChunkReturn ==
    /\ k_pc = "page"
    /\ k_page = Len(k_pages)
    /\ k_pc' = "done"
    /\ UNCHANGED <<k_pages, k_cfg, k_page, k_current_section, k_section_name,
                   k_tokens, k_start, k_global_idx, k_chunks, k_windows>>
    /\ UNCHANGED notChunkVars

\* retrieve(vs, query, k, use_mmr, mmr_fetch_k, mmr_lambda_mult) on its own;
\* the query and lambda_mult only influence what the store answers
RetrieveArgs == [k : 1..MaxK, use_mmr : BOOLEAN, mmr_fetch_k : 1..MaxK]

RetrieveInit ==
    /\ t_pc = "call"
    /\ t_args \in RetrieveArgs
    /\ t_candidates = <<>>
    /\ t_mmr_docs = <<>>
    /\ t_out = <<>>

\* use_mmr: the plain search for mmr_fetch_k candidates with their distances
RetrieveCandidates ==
    /\ t_pc = "call"
    /\ t_args.use_mmr
    /\ t_candidates' \in similarity_search_with_score(t_args.mmr_fetch_k)
    /\ t_pc' = "candidates"
    /\ UNCHANGED <<t_args, t_mmr_docs, t_out>>
    /\ UNCHANGED notRetrieveVars

\* the diversity-aware search
RetrieveSelect ==
    /\ t_pc = "candidates"
    /\ t_mmr_docs' \in max_marginal_relevance_search(t_args.k)
    /\ t_pc' = "selected"
    /\ UNCHANGED <<t_args, t_candidates, t_out>>
    /\ UNCHANGED notRetrieveVars

\* cand_map and the loop over mmr_docs
RetrieveAttach ==
    /\ t_pc = "selected"
    /\ t_out' = AttachScores(t_candidates, t_mmr_docs)
    /\ t_pc' = "done"
    /\ UNCHANGED <<t_args, t_candidates, t_mmr_docs>>
    /\ UNCHANGED notRetrieveVars

\* not use_mmr: the k nearest with their distances converted
RetrievePlain ==
    /\ t_pc = "call"
    /\ ~t_args.use_mmr
    /\ \E pairs \in similarity_search_with_score(t_args.k) :
          /\ t_candidates' = pairs
          /\ t_out' = ConvertScores(pairs)
    /\ t_pc' = "done"
    /\ UNCHANGED <<t_args, t_mmr_docs>>
    /\ UNCHANGED notRetrieveVars

RetrieveIdle ==
    /\ t_pc = "idle"
    /\ t_args = <<>>
    /\ t_candidates = <<>>
    /\ t_mmr_docs = <<>>
    /\ t_out = <<>>

----------------------------------------------------------------------------
(* scripts/index_papers.py: main.                                          *)

\* the characters of the paths in code point order
CodePoints == <<".", "/">> \o DigitChars \o UpperLetters \o LowerLetters

Code(ch) == CHOOSE i \in DOMAIN CodePoints : CodePoints[i] = ch

\* a < b for two paths of one directory, as sorted compares them
RECURSIVE PathLess(_, _)
PathLess(a, b) ==
    IF b = <<>> THEN FALSE
    ELSE IF a = <<>> THEN TRUE
    ELSE IF Head(a) = Head(b) THEN PathLess(Tail(a), Tail(b))
    ELSE Code(Head(a)) < Code(Head(b))

\* sorted(listing)
sorted(listing) ==
    CHOOSE q \in Orderings(Range(listing)) :
        \A i \in DOMAIN q : i > 1 => PathLess(q[i - 1], q[i])

PathA2 == <<"d", "/", "a", "2", ".", "p", "d", "f">>

\* the *.pdf files the papers directory may hold
PaperPaths == {PathA, PathA2, PathB}

\* what the pages of a pdf may hold
PaperPool ==
    { <<[text |-> <<"a", " ", "b">>,
         detected_headings |-> <<HeadMethods, HeadOther>>]>>,
      <<[text |-> <<"g", " ", "h", " ", "i">>, detected_headings |-> <<>>],
        [text |-> <<>>, detected_headings |-> <<HeadData>>]>> }

\* the papers directories: each file with its pages
PaperDirs == UNION { [S -> PaperPool] : S \in SUBSET PaperPaths }

\* extract_pdf_pages: the pages of the file at path, numbered from n
RECURSIVE extract_pdf_pages(_, _, _)
extract_pdf_pages(path, sel, n) ==
    IF sel = <<>> THEN <<>>
    ELSE <<PageText(path, n, Head(sel).text, Head(sel).detected_headings)>>
         \o extract_pdf_pages(path, Tail(sel), n + 1)

\* cfg.raw["chunking"] of the configuration file: load_config returns what
\* the file holds, chunk_overlap_tokens below, equal to and above chunk_tokens
IndexConfigs ==
    { ChunkConfig(2, 1, 0), ChunkConfig(2, 2, 1), ChunkConfig(1, 2, 1) }

\* chunks_to_documents
RECURSIVE chunks_to_documents(_)
chunks_to_documents(chunks) ==
    IF chunks = <<>> THEN <<>>
    ELSE <<[page_content |-> Head(chunks).text,
            metadata |-> [source_file |-> Head(chunks).metadata.source_file,
                          source_path |-> Head(chunks).metadata.source_path,
                          page_number |-> Head(chunks).metadata.page_number,
                          section_name |-> Head(chunks).metadata.section_name,
                          chunk_index |-> Head(chunks).metadata.chunk_index,
                          chunk_id |-> Head(chunks).chunk_id]]>>
         \o chunks_to_documents(Tail(chunks))

Entry(id, doc) == [id |-> id, doc |-> doc]

\* an insertion that never replaces
add_one_appends(store, id, doc) ==
    Append(store, Entry(id, doc))

\* the collection after one document is written under id: the entry with
\* that id is replaced, a new id gets a new entry
add_one(store, id, doc) ==
    IF \E i \in DOMAIN store : store[i].id = id
    THEN LET i == CHOOSE j \in DOMAIN store : store[j].id = id
         IN  [store EXCEPT ![i] = Entry(id, doc)]
    ELSE Append(store, Entry(id, doc))

\* vs.add_documents(docs, ids=ids) with ids = [d.metadata["chunk_id"] ...]
RECURSIVE add_documents(_, _)
add_documents(store, docs) ==
    IF docs = <<>> THEN store
    ELSE add_documents(add_one(store, Head(docs).metadata.chunk_id,
                               Head(docs)),
                       Tail(docs))

\* the script is run at most MaxRuns times on the same directory
MaxRuns == 2

IndexIdle ==
    /\ i_pc = "idle"
    /\ i_cfg = <<>>
    /\ i_papers = <<>>
    /\ i_pdfs = <<>>
    /\ i_n = 0
    /\ i_store = <<>>
    /\ i_runs = 0
    /\ i_log = <<>>
    /\ i_fresh = <<>>
    /\ i_before = <<>>

\* before the first run: a configuration file, a papers directory, and an
\* empty collection
IndexInit ==
    /\ i_pc = "main"
    /\ i_cfg \in IndexConfigs
    /\ i_papers \in PaperDirs
    /\ i_pdfs = <<>>
    /\ i_n = 0
    /\ i_store = <<>>
    /\ i_runs = 1
    /\ i_log = <<>>
    /\ i_fresh = <<>>
    /\ i_before = <<>>

\* load_config raises: the API key is missing from the environment
IndexConfigError ==
    /\ i_pc = "main"
    /\ i_pc' = "config_error"
    /\ UNCHANGED <<i_cfg, i_papers, i_pdfs, i_n, i_store, i_runs, i_log,
                   i_fresh, i_before>>
    /\ UNCHANGED chunkVars
    /\ UNCHANGED notIndexVars

\* main up to the for loop: load_config returns, the directory is listed in
\* some order and sorted; no pdf is fatal
IndexMain ==
    /\ i_pc = "main"
    /\ \E listing \in Orderings(DOMAIN i_papers) :
          /\ i_pdfs' = sorted(listing)
          /\ i_pc' = IF listing = <<>> THEN "no_pdfs" ELSE "loop"
    /\ i_n' = 1
    /\ UNCHANGED <<i_cfg, i_papers, i_store, i_runs, i_log, i_fresh, i_before>>
    /\ UNCHANGED chunkVars
    /\ UNCHANGED notIndexVars

\* the next pdf: its pages are extracted and chunk_pages is called with
\* cfg.raw["chunking"]
IndexExtract ==
    /\ i_pc = "loop"
    /\ i_n <= Len(i_pdfs)
    /\ i_pc' = "chunking"
    /\ k_pc' = "page"
    /\ k_pages' = extract_pdf_pages(i_pdfs[i_n], i_papers[i_pdfs[i_n]], 1)
    /\ k_cfg' = i_cfg
    /\ k_page' = 0
    /\ k_current_section' = Unknown
    /\ k_section_name' = <<>>
    /\ k_tokens' = <<>>
    /\ k_start' = 0
    /\ k_global_idx' = 0
    /\ k_chunks' = <<>>
    /\ k_windows' = <<>>
    /\ UNCHANGED <<i_cfg, i_papers, i_pdfs, i_n, i_store, i_runs, i_log,
                   i_fresh, i_before>>
    /\ UNCHANGED notIndexVars

\* chunk_pages has returned: the documents are added under their chunk ids
IndexAdd ==
    /\ i_pc = "chunking"
    /\ k_pc = "done"
    /\ i_store' = add_documents(i_store, chunks_to_documents(k_chunks))
    /\ i_fresh' = add_documents(i_fresh, chunks_to_documents(k_chunks))
    /\ i_log' = Append(i_log, i_pdfs[i_n])
    /\ i_n' = i_n + 1
    /\ i_pc' = "loop"
    /\ k_pc' = "idle"
    /\ UNCHANGED <<i_cfg, i_papers, i_pdfs, i_runs, i_before>>
    /\ UNCHANGED <<k_pages, k_cfg, k_page, k_current_section, k_section_name,
                   k_tokens, k_start, k_global_idx, k_chunks, k_windows>>
    /\ UNCHANGED notIndexVars

\* an exception ends the run: the pdf cannot be read, or the embedding or
\* the write of its documents fails
IndexFail ==
    /\ \/ i_pc = "loop" /\ i_n <= Len(i_pdfs)
       \/ i_pc = "chunking" /\ k_pc = "done"
    /\ i_pc' = "failed"
    /\ UNCHANGED <<i_cfg, i_papers, i_pdfs, i_n, i_store, i_runs, i_log,
                   i_fresh, i_before>>
    /\ UNCHANGED chunkVars
    /\ UNCHANGED notIndexVars

\* the for loop is over
IndexEnd ==
    /\ i_pc = "loop"
    /\ i_n > Len(i_pdfs)
    /\ i_pc' = "done"
    /\ UNCHANGED <<i_cfg, i_papers, i_pdfs, i_n, i_store, i_runs, i_log,
                   i_fresh, i_before>>
    /\ UNCHANGED chunkVars
    /\ UNCHANGED notIndexVars

\* the script is run again on the same configuration, papers and collection
IndexRerun ==
    /\ i_pc \in {"done", "failed"}
    /\ i_runs < MaxRuns
    /\ i_runs' = i_runs + 1
    /\ i_pc' = "main"
    /\ i_pdfs' = <<>>
    /\ i_n' = 0
    /\ i_log' = <<>>
    /\ i_fresh' = <<>>
    /\ i_before' = i_store
    /\ UNCHANGED <<i_cfg, i_papers, i_store>>
    /\ UNCHANGED chunkVars
    /\ UNCHANGED notIndexVars

----------------------------------------------------------------------------
(* Specifications.                                                         *)

\* answer_question, one question from START to its AnswerResult
Init ==
    /\ AnswerInit
    /\ CodecIdle /\ RouterIdle /\ AbstainIdle
    /\ HashIdle /\ ChunkIdle /\ RetrieveIdle /\ IndexIdle

Next == DoRoute \/ DoRetrieve \/ AbstainNoEvidence \/ Generate \/ Ground

Spec == Init /\ [][Next]_vars

\* the citation codec
CodecSpecInit ==
    /\ CodecInit
    /\ RouterIdle /\ AbstainIdle /\ AnswerIdle
    /\ HashIdle /\ ChunkIdle /\ RetrieveIdle /\ IndexIdle

CodecSpecNext ==
    CodecFormat \/ CodecCompose \/ CodecReceive \/ CodecExtract \/ CodecIds

SpecCodec == CodecSpecInit /\ [][CodecSpecNext]_vars

\* _stable_chunk_id on two inputs
HashSpecInit ==
    /\ HashInit
    /\ CodecIdle /\ RouterIdle /\ AbstainIdle /\ AnswerIdle
    /\ ChunkIdle /\ RetrieveIdle /\ IndexIdle

HashSpecNext == HashBoth

SpecHash == HashSpecInit /\ [][HashSpecNext]_vars

\* chunk_pages on one document
ChunkSpecInit ==
    /\ ChunkInit
    /\ CodecIdle /\ RouterIdle /\ AbstainIdle /\ AnswerIdle
    /\ HashIdle /\ RetrieveIdle /\ IndexIdle

ChunkSpecNext == ChunkNextPage \/ ChunkWindow \/ ChunkReturn

SpecChunk == ChunkSpecInit /\ [][ChunkSpecNext]_vars

\* retrieve on its own
RetrieveSpecInit ==
    /\ RetrieveInit
    /\ CodecIdle /\ RouterIdle /\ AbstainIdle /\ AnswerIdle
    /\ HashIdle /\ ChunkIdle /\ IndexIdle

RetrieveSpecNext ==
    RetrieveCandidates \/ RetrieveSelect \/ RetrieveAttach \/ RetrievePlain

SpecRetrieve == RetrieveSpecInit /\ [][RetrieveSpecNext]_vars

\* the router
RouterSpecInit ==
    /\ RouterInit
    /\ CodecIdle /\ AbstainIdle /\ AnswerIdle
    /\ HashIdle /\ ChunkIdle /\ RetrieveIdle /\ IndexIdle

RouterSpecNext == RouterRoute

SpecRouter == RouterSpecInit /\ [][RouterSpecNext]_vars

\* the abstention rule
AbstainSpecInit ==
    /\ AbstainInit
    /\ CodecIdle /\ RouterIdle /\ AnswerIdle
    /\ HashIdle /\ ChunkIdle /\ RetrieveIdle /\ IndexIdle

AbstainSpecNext == AbstainEvaluate \/ AbstainRaise

SpecAbstain == AbstainSpecInit /\ [][AbstainSpecNext]_vars

----------------------------------------------------------------------------
(* Properties of answer_question (Spec).                                   *)

Returned == pc = "DONE"

\* the language model was called and its response is in response
Generated == llm_calls > 0

RetrievedIds(res) == {res.retrieved[i].chunk_id : i \in DOMAIN res.retrieved}

\* C1: in every returned AnswerResult, abstained implies that cited_chunks is
\* empty, and not abstained implies that cited_chunks is non-empty and that
\* every chunk_id in it is the chunk_id of an item of retrieved.
C1_GroundingInvariant ==
    Returned =>
        /\ result.abstained = TRUE => result.cited_chunks = <<>>
        /\ result.abstained = FALSE =>
              /\ result.cited_chunks # <<>>
              /\ \A i \in DOMAIN result.cited_chunks :
                    result.cited_chunks[i].chunk_id \in RetrievedIds(result)

\* C2: when retrieval passed the threshold and the model's response is exactly
\* the abstention sentence, the result has abstained = true and no cited
\* chunks.
C2_SentenceAbstains ==
    (Returned /\ Generated /\ response = ABSTAIN_SENTENCE) =>
        /\ result.abstained = TRUE
        /\ result.cited_chunks = <<>>

\* C3: should_abstain is evaluated on the retrieved list before any call of the
\* language model; when it is true the model is never called in that run and
\* the result is the abstention sentence with abstained = true, no cited
\* chunks and every retrieved item attached in retrieval order.
C3_AbstainBeforeGeneration ==
    /\ pc \in {"START", "ROUTED", "RETRIEVED"} => llm_calls = 0
    /\ (pc \in {"RETRIEVED", "GENERATED", "DONE"}
          /\ should_abstain(retrieved, cfg.min_similarity)) =>
          /\ llm_calls = 0
          /\ pc # "GENERATED"
          /\ Returned =>
                /\ result.answer = ABSTAIN_SENTENCE
                /\ result.abstained = TRUE
                /\ result.cited_chunks = <<>>
                /\ Len(result.retrieved) = Len(retrieved)
                /\ \A i \in DOMAIN retrieved :
                      /\ result.retrieved[i].chunk_id
                            = retrieved[i].doc.metadata.chunk_id
                      /\ result.retrieved[i].text = retrieved[i].doc.page_content
                      /\ result.retrieved[i].score = retrieved[i].score

\* a run that returned without generating although two items were retrieved
C3_Witness ==
    /\ Returned
    /\ should_abstain(retrieved, cfg.min_similarity)
    /\ Len(retrieved) = 2
    /\ Len(result.retrieved) = 2
    /\ llm_calls = 0

----------------------------------------------------------------------------
(* Properties of should_abstain (SpecAbstain).                             *)

Evaluated == a_pc = "evaluated"

AllBelow(rs, t) == \A i \in DOMAIN rs : RatLess(rs[i].score, t)

\* C4: should_abstain(retrieved, min_similarity) is true exactly when
\* retrieved is empty or its greatest similarity, hence every similarity in
\* it, is strictly below min_similarity; a greatest similarity equal to the
\* threshold does not abstain.
C4_AbstainRule ==
    Evaluated =>
        /\ a_result = (a_retrieved = <<>> \/ AllBelow(a_retrieved, a_min))
        /\ a_retrieved = <<>> => a_result = TRUE
        /\ (a_retrieved # <<>> /\ \E i \in DOMAIN a_retrieved :
                                     a_retrieved[i].score = a_min)
              => a_result = FALSE

\* the greatest similarity equals the threshold and the verdict is no
\* abstention
C4_Witness ==
    /\ Evaluated
    /\ a_result = FALSE
    /\ Len(a_retrieved) > 1
    /\ \E i \in DOMAIN a_retrieved : a_retrieved[i].score = a_min
    /\ \A i \in DOMAIN a_retrieved : ~RatLess(a_min, a_retrieved[i].score)

\* C5: for a fixed retrieved list, an abstention under a threshold stays an
\* abstention under every threshold that is not lower, and a non-empty list
\* abstains under any threshold above its greatest similarity.
C5_AbstainMonotone ==
    /\ (a_prev # <<>> /\ a_prev[1].abstain /\ ~RatLess(a_min, a_prev[1].min))
          => a_result = TRUE
    /\ (Evaluated /\ a_retrieved # <<>> /\ AllBelow(a_retrieved, a_min))
          => a_result = TRUE

\* a non-empty list that did not abstain and abstains under a raised
\* threshold
C5_Witness ==
    /\ a_retrieved # <<>>
    /\ a_prev # <<>>
    /\ a_prev[1].abstain = FALSE
    /\ RatLess(a_prev[1].min, a_min)
    /\ a_result = TRUE

----------------------------------------------------------------------------
(* Properties of route_query (SpecRouter).                                 *)

Routed == r_pc = "routed"

Matches(mode) ==
    CASE mode = "claim_verify" -> Search(_VERIFY_PAT, r_question)
      [] mode = "compare" -> Search(_COMPARE_PAT, r_question)
      [] mode = "method_card" -> Search(_METHOD_PAT, r_question)

\* C6: the mode is claim_verify if a claim_verify trigger matches, otherwise
\* compare if a compare trigger matches, otherwise method_card if a
\* method_card trigger matches, otherwise qa; it is one of the four modes and
\* is the same for the question in upper case and in lower case.
C6_RoutePriority ==
    Routed =>
        /\ r_route.mode \in Modes
        /\ Matches("claim_verify") => r_route.mode = "claim_verify"
        /\ (~Matches("claim_verify") /\ Matches("compare"))
              => r_route.mode = "compare"
        /\ (~Matches("claim_verify") /\ ~Matches("compare")
              /\ Matches("method_card")) => r_route.mode = "method_card"
        /\ (~Matches("claim_verify") /\ ~Matches("compare")
              /\ ~Matches("method_card")) => r_route.mode = "qa"
        /\ route_query(UpperText(r_question)) = r_route
        /\ route_query(LowerText(r_question)) = r_route

\* a question with a claim_verify and a compare trigger, not in lower case,
\* routed to claim_verify
C6_Witness ==
    /\ Routed
    /\ Matches("claim_verify")
    /\ Matches("compare")
    /\ r_question # LowerText(r_question)
    /\ r_route.mode = "claim_verify"

\* w occurs in q, ignoring case
Contains(q, w) == \E i \in 1..Len(q) : LiteralAt(q, i, w)

\* w occurs in q, ignoring case, with no letter, digit or underscore right
\* before or right after it
ContainsWord(q, w) ==
    \E i \in 1..Len(q) :
        /\ LiteralAt(q, i, w)
        /\ ~IsWordAt(q, i - 1)
        /\ ~IsWordAt(q, i + Len(w))

TriggerModes == {"claim_verify", "compare", "method_card"}

\* C7 as stated: a trigger group matches exactly when the question contains
\* one of its listed strings anywhere, ignoring case, also inside a longer
\* word.
C7_SubstringMatch ==
    Routed =>
        \A mode \in TriggerModes :
            Matches(mode) <=>
                \E w \in ListedTriggers(mode) : Contains(r_question, w)

\* C7 amended: a trigger group matches exactly when the question contains one
\* of its listed strings, ignoring case, as a whole word or phrase: not
\* directly preceded or followed by a letter, digit or underscore.
C7_WholeWordMatch ==
    Routed =>
        \A mode \in TriggerModes :
            Matches(mode) <=>
                \E w \in ListedTriggers(mode) : ContainsWord(r_question, w)

\* a question that holds a compare trigger only inside a longer word and is
\* routed to qa
C7_Witness ==
    /\ Routed
    /\ \E w \in ListedTriggers("compare") : Contains(r_question, w)
    /\ ~Matches("compare")
    /\ r_route.mode = "qa"

----------------------------------------------------------------------------
(* Properties of the citation codec (SpecCodec).                           *)

Extracted == c_pc = "done"

Formatted == Extracted /\ c_in.kind = "format"

Received == Extracted /\ c_in.kind = "raw"

IsChunkId(id) == Len(id) = ID_LEN /\ Range(id) \subseteq HexLower

OneMarker == <<CitedChunk(c_in.chunk_id, c_in.page_number)>>

\* C8: for a 12-hex-digit chunk id and a page number >= 0,
\* extract_citations(format_citation(id, page)) is exactly one marker, with
\* that id and that page.
C8_RoundTrip ==
    (Formatted /\ c_in.prefix = <<>> /\ c_in.suffix = <<>>
        /\ IsChunkId(c_in.chunk_id) /\ c_in.page_number >= 0)
        => c_out = OneMarker

\* a marker with a page number of two digits went through the round trip
C8_Witness ==
    /\ Formatted
    /\ c_in.prefix = <<>>
    /\ c_in.suffix = <<>>
    /\ c_in.page_number >= 10
    /\ c_text = format_citation(c_in.chunk_id, c_in.page_number)
    /\ Len(c_out) = 1

\* C9 as stated: whatever text stands before and after the formatted marker,
\* extraction yields exactly one marker, equal to (id, page).
C9_AnySurroundings ==
    Formatted => c_out = OneMarker

\* C9 amended: when the text before and the text after the formatted marker
\* hold no citation marker themselves, extraction yields exactly one marker,
\* equal to (id, page).
C9_MarkerFreeSurroundings ==
    (Formatted /\ extract_citations(c_in.prefix) = <<>>
        /\ extract_citations(c_in.suffix) = <<>>)
        => c_out = OneMarker

\* a marker found between non-empty marker-free text on both sides
C9_Witness ==
    /\ Formatted
    /\ c_in.prefix # <<>>
    /\ c_in.suffix # <<>>
    /\ extract_citations(c_in.prefix) = <<>>
    /\ extract_citations(c_in.suffix) = <<>>
    /\ c_out = OneMarker

\* the parts "[" id separator "p." digits "]" with the separator drawn from
\* seps
Grammar(p, seps) ==
    /\ IsChunkId(p.id)
    /\ p.sep # <<>>
    /\ Range(p.sep) \subseteq seps
    /\ p.tag = <<"p", ".">>
    /\ p.page # <<>>
    /\ Range(p.page) \subseteq Digits
    /\ p.close = <<"]">>

\* C10 as stated: a marker is recognised only with one or more space
\* characters between the id and "p."; a tab or a newline there gives no
\* marker.
C10_SpaceSeparated ==
    Received => (c_out # <<>> <=> Grammar(c_in.parts, {" "}))

\* C10 amended: a marker is recognised exactly when it is "[", 12 lower-case
\* hex digits, one or more whitespace characters (space, tab, newline, ...),
\* "p.", one or more decimal digits, "]"; every other near-match gives no
\* marker.
C10_WhitespaceSeparated ==
    Received =>
        /\ c_out # <<>> <=> Grammar(c_in.parts, Whitespace)
        /\ c_out # <<>> =>
              c_out = <<CitedChunk(c_in.parts.id, ParseInt(c_in.parts.page))>>

\* a marker whose separator is a tab was recognised
C10_Witness ==
    /\ Received
    /\ c_in.parts.sep = <<"\t">>
    /\ Len(c_out) = 1

\* the answer was composed of marker and text pieces
Composed == c_pc \in {"done", "ids"} /\ c_in.kind = "compose"

\* the markers among the pieces, in the order of the pieces
RECURSIVE MarkersOf(_)
MarkersOf(segs) ==
    IF segs = <<>> THEN <<>>
    ELSE (IF Head(segs).kind = "marker"
          THEN <<CitedChunk(Head(segs).chunk_id, Head(segs).page_number)>>
          ELSE <<>>)
         \o MarkersOf(Tail(segs))

\* C11: extract_citations returns one marker per match, in left-to-right
\* order, and keeps a marker that occurs again; only citation_ids removes
\* duplicates, and it returns exactly the set of the chunk ids of the markers
\* it is given.
C11_OrderAndDuplicates ==
    Composed =>
        /\ c_out = MarkersOf(c_in.segments)
        /\ c_pc = "ids" =>
              /\ c_ids = { s.chunk_id :
                             s \in { x \in Range(c_in.segments) :
                                       x.kind = "marker" } }
              /\ \A id \in c_ids : \E i \in DOMAIN c_out : c_out[i].chunk_id = id
              /\ \A i \in DOMAIN c_out : c_out[i].chunk_id \in c_ids

\* the same marker twice with another one between them
C11_Witness ==
    /\ Composed
    /\ c_pc = "ids"
    /\ Len(c_out) = 3
    /\ c_out[1] = c_out[3]
    /\ c_out[1].chunk_id # c_out[2].chunk_id
    /\ Cardinality(c_ids) = 2

----------------------------------------------------------------------------
(* Properties of _stable_chunk_id (SpecHash).                              *)

Hashed == h_pc = "done"

\* C12: _stable_chunk_id is a function of (source path, page number, section
\* name, chunk index, text): equal fields give equal ids, and two inputs
\* that differ in at least one field give different ids, the digest being
\* collision-free on different hashed bytes.
C12_IdIdentifiesFields ==
    Hashed => (h_ids[1] = h_ids[2] <=> h_a = h_b)

----------------------------------------------------------------------------
(* Properties of chunk_pages (SpecChunk).                                  *)

Chunked == k_pc = "done"

\* C13: within one document no two chunks returned by chunk_pages have the
\* same chunk_id, the digest being collision-free on different hashed bytes.
C13_UniqueChunkIds ==
    Chunked =>
        \A i, j \in DOMAIN k_chunks :
            i # j => k_chunks[i].chunk_id # k_chunks[j].chunk_id

\* C14: chunk_index is a running counter over the whole document: the n-th
\* emitted chunk has chunk_index n counted from 0, across pages; a window or
\* page that emits no chunk consumes no index, so the next index is always
\* the number of chunks emitted so far and no two chunks share an index.
C14_RunningIndex ==
    k_pc \in {"page", "window", "done"} =>
        /\ k_global_idx = Len(k_chunks)
        /\ \A n \in DOMAIN k_chunks :
               k_chunks[n].metadata.chunk_index = n - 1
        /\ \A i, j \in DOMAIN k_chunks :
               i # j => k_chunks[i].metadata.chunk_index
                            # k_chunks[j].metadata.chunk_index

\* consecutive indices on pages 1 and 3, page 2 having emitted nothing, and
\* a page with more windows than chunks
C14_Witness ==
    /\ Chunked
    /\ Len(k_pages) = 3
    /\ \E n \in DOMAIN k_chunks :
          /\ n > 1
          /\ k_chunks[n - 1].metadata.page_number = 1
          /\ k_chunks[n].metadata.page_number = 3
          /\ k_chunks[n].metadata.chunk_index = n - 1
    /\ k_cfg.chunk_tokens = 1
    /\ Len(enc_encode(k_pages[1].text)) + Len(enc_encode(k_pages[3].text))
           > Len(k_chunks)

\* the pages up to page p that have a heading candidate
HeadedPages(p) == { j \in 1..p : k_pages[j].detected_headings # <<>> }

SetMax(S) == CHOOSE x \in S : \A y \in S : y <= x

\* a numeric outline prefix: digits and single dots, digits at both ends
IsOutlineNumber(u) ==
    /\ u # <<>>
    /\ \A i \in DOMAIN u : u[i] \in Digits \cup {"."}
    /\ u[1] \in Digits
    /\ u[Len(u)] \in Digits
    /\ \A i \in 1..(Len(u) - 1) : ~(u[i] = "." /\ u[i + 1] = ".")

\* h is an outline number h[1..a], whitespace, and a title that starts at b
NumberedAt(h, a, b) ==
    /\ a + 1 < b
    /\ IsOutlineNumber(SubSeq(h, 1, a))
    /\ \A q \in (a + 1)..(b - 1) : h[q] \in Whitespace
    /\ h[b] \notin Whitespace
    /\ \A q \in b..Len(h) : h[q] # "\n"

\* the heading without its outline number
WithoutOutline(h) ==
    IF \E a, b \in DOMAIN h : NumberedAt(h, a, b)
    THEN SubSeq(h, CHOOSE b \in DOMAIN h : \E a \in DOMAIN h : NumberedAt(h, a, b),
                Len(h))
    ELSE h

CarriedSection(p) ==
    IF HeadedPages(p) = {} THEN Unknown
    ELSE WithoutOutline(k_pages[SetMax(HeadedPages(p))].detected_headings[1])

\* C15: every chunk carries as section_name the first heading candidate of
\* the most recent page at or before its own page that has a heading
\* candidate, pages that emit no chunk included, without its leading outline
\* number; "Unknown" when there is no such page. A page without heading
\* candidates leaves the carried section as it is.
C15_SectionCarried ==
    /\ \A i \in DOMAIN k_chunks :
          k_chunks[i].metadata.section_name
              = CarriedSection(k_chunks[i].metadata.page_number)
    /\ (k_pc \in {"page", "window"} /\ k_page > 0) =>
          /\ k_section_name = CarriedSection(k_page)
          /\ k_pages[k_page].detected_headings = <<>> =>
                 k_section_name = (IF k_page = 1 THEN Unknown
                                   ELSE CarriedSection(k_page - 1))

\* "2.1 Methods" on page 1, a heading on a page 2 that emits no chunk, and a
\* page 3 without headings whose chunks carry the heading of page 2
C15_Witness ==
    /\ Chunked
    /\ Len(k_pages) = 3
    /\ k_pages[1].detected_headings = <<HeadMethods, HeadOther>>
    /\ k_pages[2].detected_headings = <<HeadData>>
    /\ k_pages[3].detected_headings = <<>>
    /\ \E i, j \in DOMAIN k_chunks :
          /\ k_chunks[i].metadata.page_number = 1
          /\ k_chunks[i].metadata.section_name = SubSeq(HeadMethods, 5, 11)
          /\ k_chunks[j].metadata.page_number = 3
          /\ k_chunks[j].metadata.section_name = SubSeq(HeadData, 3, 6)
    /\ \A i \in DOMAIN k_chunks : k_chunks[i].metadata.page_number # 2

\* the chunks of page p
ChunksOfPage(p) ==
    { i \in DOMAIN k_chunks : k_chunks[i].metadata.page_number = p }

Blank(t) == \A i \in DOMAIN t : t[i] \in Whitespace

\* part occurs in t, character for character
Within(t, part) ==
    \E i \in 0..(Len(t) - Len(part)) : SubSeq(t, i + 1, i + Len(part)) = part

\* C16: a page whose text is empty or only whitespace contributes no chunk;
\* a page with a character that is not whitespace contributes at least one
\* chunk, and its chunks carry its page_number: their text is a non-empty
\* part of the text of that page.
C16_ChunksPerPage ==
    /\ Chunked =>
          \A p \in DOMAIN k_pages :
              Blank(k_pages[p].text) <=> ChunksOfPage(p) = {}
    /\ \A i \in DOMAIN k_chunks :
          /\ k_chunks[i].metadata.page_number \in 1..k_page
          /\ k_chunks[i].text # <<>>
          /\ Within(k_pages[k_chunks[i].metadata.page_number].text,
                    k_chunks[i].text)

\* an empty page, a whitespace page and a page with text in one document
C16_Witness ==
    /\ Chunked
    /\ \E p, q, r \in DOMAIN k_pages :
          /\ k_pages[p].text = <<>>
          /\ k_pages[q].text # <<>>
          /\ Blank(k_pages[q].text)
          /\ ChunksOfPage(r) # {}
          /\ ChunksOfPage(p) = {}
          /\ ChunksOfPage(q) = {}

----------------------------------------------------------------------------
(* Properties of retrieve (SpecRetrieve).                                  *)

RetrieveReturned == t_pc = "done"

Diversified == RetrieveReturned /\ t_args.use_mmr

\* the positions of the candidates stored under chunk id
CandidatesWithId(id) ==
    { j \in DOMAIN t_candidates : t_candidates[j][1].metadata.chunk_id = id }

\* C17 as claimed: every item retrieve returns, diversified or not, has a
\* similarity in (0, 1], whatever distances the store returned.
C17_SimilarityInUnitInterval ==
    RetrieveReturned =>
        \A i \in DOMAIN t_out :
            /\ RatLess(Zero, t_out[i].score)
            /\ ~RatLess(One, t_out[i].score)

\* C17 amended: every item retrieve returns has a similarity in [0, 1]; it
\* is above 0 whenever it was computed from a distance the store returned,
\* and it is 0 exactly for a document of the diversified path whose chunk id
\* is not among the candidates.
C17_SimilarityInClosedInterval ==
    RetrieveReturned =>
        \A i \in DOMAIN t_out :
            /\ ~RatLess(t_out[i].score, Zero)
            /\ ~RatLess(One, t_out[i].score)
            /\ t_out[i].score = Zero <=>
                   /\ t_args.use_mmr
                   /\ CandidatesWithId(t_out[i].doc.metadata.chunk_id) = {}

\* a diversified result with a similarity of 0 and one of 1 that comes from
\* a negative distance
C17_Witness ==
    /\ Diversified
    /\ \E i, j \in DOMAIN t_out :
          /\ t_out[i].score = Zero
          /\ t_out[j].score = One
          /\ \E c \in CandidatesWithId(t_out[j].doc.metadata.chunk_id) :
                RatLess(t_candidates[c][2], Zero)

\* C18: on the diversified path retrieve returns exactly the documents the
\* diversity-aware search chose, in that order, each with the similarity of
\* the candidate of the plain search that has the same chunk id; a chosen
\* document with no such candidate gets 0.0, and retrieve still returns.
C18_DiversifiedScores ==
    /\ Diversified =>
          /\ Len(t_out) = Len(t_mmr_docs)
          /\ \A i \in DOMAIN t_out :
                /\ t_out[i].doc = t_mmr_docs[i]
                /\ LET same ==
                           CandidatesWithId(t_mmr_docs[i].metadata.chunk_id)
                   IN  IF same = {} THEN t_out[i].score = Zero
                       ELSE \A j \in same :
                                t_out[i].score =
                                    _distance_to_similarity(t_candidates[j][2])
    /\ t_pc = "selected" => ENABLED RetrieveAttach

\* two chosen documents, the first one missing from the candidates
C18_Witness ==
    /\ Diversified
    /\ Len(t_out) = 2
    /\ Len(t_candidates) = 1
    /\ CandidatesWithId(t_out[1].doc.metadata.chunk_id) = {}
    /\ t_out[1].score = Zero
    /\ t_out[2].doc = t_candidates[1][1]
    /\ RatLess(Zero, t_out[2].score)

----------------------------------------------------------------------------
(* Properties of the run of answer_question (Spec).                        *)

RunPaths ==
    { <<"START", "ROUTED", "RETRIEVED", "ABSTAINED_NO_EVIDENCE">>,
      <<"START", "ROUTED", "RETRIEVED", "GENERATED", "GROUNDED">>,
      <<"START", "ROUTED", "RETRIEVED", "GENERATED", "ABSTAINED_UNGROUNDED">> }

IsPrefix(p, q) == Len(p) <= Len(q) /\ SubSeq(q, 1, Len(p)) = p

Current == visited[Len(visited)]

\* the number of model invocations that have returned
Invocations == Cardinality({ i \in DOMAIN visited : visited[i] = "GENERATED" })

\* C19: every run goes through START, ROUTED, RETRIEVED in that order and
\* ends in exactly one of ABSTAINED_NO_EVIDENCE, GROUNDED and
\* ABSTAINED_UNGROUNDED; the language model is invoked at most once, exactly
\* once if and only if should_abstain is false, and never again; GROUNDED
\* and ABSTAINED_UNGROUNDED come only after that invocation has returned.
C19_RunOrder ==
    /\ \E q \in RunPaths : IsPrefix(visited, q)
    /\ Returned <=> visited \in RunPaths
    /\ llm_calls \in {0, 1}
    /\ llm_calls = Invocations
    /\ Returned =>
          (llm_calls = 1 <=> ~should_abstain(retrieved, cfg.min_similarity))
    /\ Current \in {"GROUNDED", "ABSTAINED_UNGROUNDED"} =>
          /\ visited[Len(visited) - 1] = "GENERATED"
          /\ llm_calls = 1
          /\ response \in Responses
    /\ Current = "ABSTAINED_NO_EVIDENCE" =>
          /\ llm_calls = 0
          /\ result.abstained = TRUE
    /\ Current = "ABSTAINED_UNGROUNDED" => result.abstained = TRUE
    /\ Current = "GROUNDED" => result.abstained = FALSE

\* a run that ended in ABSTAINED_UNGROUNDED after its one invocation
C19_Witness ==
    /\ Returned
    /\ Current = "ABSTAINED_UNGROUNDED"
    /\ llm_calls = 1
    /\ response # <<>>
    /\ extract_citations(response) # <<>>

GroundedResult == Returned /\ result.abstained = FALSE

\* the chunk ids cited by a marker of the response and present in retrieved
CitedAndRetrieved ==
    citation_ids(extract_citations(response))
        \cap { retrieved[j].doc.metadata.chunk_id : j \in DOMAIN retrieved }

\* C20: in a result with abstained = false, answer is the response of the
\* language model unchanged and cited_chunks has exactly one entry for each
\* chunk id that a marker of the response cites and retrieved contains; a
\* cited id that was not retrieved has no entry; every entry carries the
\* text, source file, page number and section of the retrieved chunk with
\* its id.
C20_GroundedResult ==
    GroundedResult =>
        /\ result.answer = response
        /\ { result.cited_chunks[i].chunk_id : i \in DOMAIN result.cited_chunks }
               = CitedAndRetrieved
        /\ Len(result.cited_chunks) = Cardinality(CitedAndRetrieved)
        /\ \A i \in DOMAIN result.cited_chunks :
               \E j \in DOMAIN retrieved :
                   LET entry == result.cited_chunks[i]
                       d == retrieved[j].doc
                   IN  /\ d.metadata.chunk_id = entry.chunk_id
                       /\ entry.text = d.page_content
                       /\ entry.source_file = d.metadata.source_file
                       /\ entry.page_number = d.metadata.page_number
                       /\ entry.section_name = d.metadata.section_name

\* three markers, one id cited twice and one id that was not retrieved, give
\* one entry although two chunks were retrieved
C20_Witness ==
    /\ GroundedResult
    /\ Len(extract_citations(response)) = 3
    /\ Cardinality(citation_ids(extract_citations(response))) = 2
    /\ Len(retrieved) = 2
    /\ Len(result.cited_chunks) = 1
    /\ result.cited_chunks[1].chunk_id = IdA

\* index_papers.py run on a papers directory, up to MaxRuns times
IndexSpecInit ==
    /\ IndexInit
    /\ CodecIdle /\ RouterIdle /\ AbstainIdle /\ AnswerIdle
    /\ HashIdle /\ ChunkIdle /\ RetrieveIdle

IndexSpecNext ==
    \/ IndexConfigError \/ IndexMain \/ IndexExtract
    \/ ChunkNextPage \/ ChunkWindow \/ ChunkReturn
    \/ IndexAdd \/ IndexFail \/ IndexEnd \/ IndexRerun

SpecIndex == IndexSpecInit /\ [][IndexSpecNext]_vars

----------------------------------------------------------------------------
(* Windows of a page.                                                     *)

\* the window reaches the end of the tokens of its page
FinalWindow(w) == w.end = w.len

\* C21: every window that ends before the end of its page's tokens holds at
\* least min_chunk_tokens tokens, and when chunk_tokens is below
\* min_chunk_tokens it holds exactly min_chunk_tokens, more than chunk_tokens;
\* only the final window of a page may be shorter than min_chunk_tokens.
C21_MinimumWindow ==
    \A i \in DOMAIN k_windows :
        LET w == k_windows[i]
        IN  /\ ~FinalWindow(w) => w.end - w.start >= k_cfg.min_chunk_tokens
            /\ ~FinalWindow(w) /\ k_cfg.chunk_tokens < k_cfg.min_chunk_tokens
                   => /\ w.end - w.start = k_cfg.min_chunk_tokens
                      /\ w.end - w.start > k_cfg.chunk_tokens
            /\ w.end - w.start < k_cfg.min_chunk_tokens => FinalWindow(w)

\* a page cut with chunk_tokens below min_chunk_tokens: an extended window
\* followed by a final window shorter than min_chunk_tokens
C21_Witness ==
    /\ Chunked
    /\ k_cfg.chunk_tokens < k_cfg.min_chunk_tokens
    /\ \E i, j \in DOMAIN k_windows :
          /\ k_windows[i].page = k_windows[j].page
          /\ ~FinalWindow(k_windows[i])
          /\ k_windows[i].end - k_windows[i].start > k_cfg.chunk_tokens
          /\ FinalWindow(k_windows[j])
          /\ k_windows[j].end - k_windows[j].start < k_cfg.min_chunk_tokens

\* chunk_pages under its scheduling: it is one sequential loop, so a step
\* that can be taken is taken. Documents have up to MaxLivePages pages.
MaxLivePages == 2

ChunkLiveInit == ChunkSpecInit /\ Len(k_pages) <= MaxLivePages

SpecChunkLive ==
    ChunkLiveInit /\ [][ChunkSpecNext]_vars /\ WF_vars(ChunkSpecNext)

\* the while loop of page p is over
LoopOver(p) == p < k_page \/ (p = k_page /\ k_pc # "window")

\* the last window cut from page p so far
LastWindowOf(p) ==
    k_windows[SetMax({ i \in DOMAIN k_windows : k_windows[i].page = p })]

StartsIncrease ==
    \A i \in DOMAIN k_windows :
        i > 1 /\ k_windows[i - 1].page = k_windows[i].page
            => k_windows[i].start > k_windows[i - 1].start

LoopsEndAtLastToken ==
    \A p \in DOMAIN k_pages :
        LoopOver(p) /\ enc_encode(k_pages[p].text) # <<>>
            => /\ \E i \in DOMAIN k_windows : k_windows[i].page = p
               /\ FinalWindow(LastWindowOf(p))

\* C22: with chunk_tokens >= 1 and 0 <= chunk_overlap_tokens < chunk_tokens
\* (any min_chunk_tokens >= 0) the start of the window strictly increases
\* within a page, the loop of every page with tokens ends with a window that
\* reaches the last token, and chunk_pages returns.
C22_Terminates ==
    /\ [](StartsIncrease /\ LoopsEndAtLastToken)
    /\ <>Chunked

\* chunk_pages has returned after a page that took three or more windows
C22_Witness ==
    /\ Chunked
    /\ \E i \in DOMAIN k_windows :
          /\ i > 2
          /\ k_windows[i - 2].page = k_windows[i].page
          /\ k_windows[i - 1].page = k_windows[i].page
          /\ k_windows[i].start > k_windows[i - 1].start
          /\ k_windows[i - 1].start > k_windows[i - 2].start
          /\ FinalWindow(k_windows[i])

\* the loop of page p is over and every token of p lies in a window
Covered(p) ==
    \A n \in 1..Len(enc_encode(k_pages[p].text)) :
        \E i \in DOMAIN k_windows :
            /\ k_windows[i].page = p
            /\ k_windows[i].start < n
            /\ n <= k_windows[i].end

\* chunk_pages runs with 0 < chunk_overlap_tokens < chunk_tokens
Overlapping ==
    /\ k_pc # "idle"
    /\ 0 < k_cfg.chunk_overlap_tokens
    /\ k_cfg.chunk_overlap_tokens < k_cfg.chunk_tokens

\* C24: with 0 < chunk_overlap_tokens < chunk_tokens the next window of a
\* page starts exactly chunk_overlap_tokens tokens before the end of the
\* window before it, so the two share a non-empty run of tokens, and no token
\* of a finished page lies outside every window; the page of 500 tokens cut
\* with chunk_tokens 100, overlap 30 and minimum 50 gives at least 3 chunks.
C24_Overlap ==
    /\ Overlapping =>
          \A i \in DOMAIN k_windows :
              i > 1 /\ k_windows[i - 1].page = k_windows[i].page
                  => /\ k_windows[i].start =
                            k_windows[i - 1].end - k_cfg.chunk_overlap_tokens
                     /\ k_windows[i].start < k_windows[i - 1].end
    /\ Overlapping =>
          \A p \in DOMAIN k_pages : LoopOver(p) => Covered(p)
    /\ Chunked /\ k_pages = OverlapTestPages /\ k_cfg = OverlapTestConfig
          => Len(k_chunks) >= 3

\* the page of 500 tokens is cut into windows that start every 70 tokens
C24_Witness ==
    /\ Chunked
    /\ k_pages = OverlapTestPages
    /\ k_cfg = OverlapTestConfig
    /\ Len(enc_encode(k_pages[1].text)) = text_tokens
    /\ Len(k_chunks) >= 3
    /\ k_windows[1] = Window(1, 0, 100, text_tokens)
    /\ k_windows[2] = Window(1, 70, 170, text_tokens)
    /\ k_windows[Len(k_windows)].end = text_tokens

----------------------------------------------------------------------------
(* Indexing.                                                               *)

\* chunk_pages is running for the pdf at i_n
InChunkPages == i_pc = "chunking" /\ k_pc \in {"page", "window"}

\* C23: a configuration whose chunk_overlap_tokens is not below chunk_tokens
\* is rejected before any chunking: chunk_pages never runs with it, and the
\* start of the window never fails to advance within a page.
C23_OverlapValidated ==
    /\ InChunkPages => k_cfg.chunk_overlap_tokens < k_cfg.chunk_tokens
    /\ i_pc = "chunking" => StartsIncrease

\* the while loop with chunk_overlap_tokens = chunk_tokens: the same window
\* again and again
C23_LoopRepeats ==
    /\ InChunkPages
    /\ k_cfg.chunk_overlap_tokens >= k_cfg.chunk_tokens
    /\ Len(k_windows) = MaxWindows
    /\ \A i \in DOMAIN k_windows : k_windows[i] = k_windows[1]

\* the entries of a collection
Entries(store) == Range(store)

OnePerId(store) ==
    \A i, j \in DOMAIN store : i # j => store[i].id # store[j].id

----------------------------------------------------------------------------
(* Citation resolution in answer_question.                                 *)

\* the markers of the response, and the positions in retrieved of the chunk
\* a marker names
Markers == extract_citations(response)

Cites(c, j) == retrieved[j].doc.metadata.chunk_id = c.chunk_id

\* the result has an entry for the chunk at position j of retrieved, with the
\* page number of that chunk
Resolved(j) ==
    \E n \in DOMAIN result.cited_chunks :
        /\ result.cited_chunks[n].chunk_id = retrieved[j].doc.metadata.chunk_id
        /\ result.cited_chunks[n].page_number =
               retrieved[j].doc.metadata.page_number

\* C26: a marker resolves by its chunk id alone: when the id is the id of a
\* retrieved chunk the result is grounded, whatever page the marker names,
\* and the entry in cited_chunks carries the page number of the chunk.
C26_ResolvedById ==
    Returned /\ Generated =>
        \A i \in DOMAIN Markers, j \in DOMAIN retrieved :
            Cites(Markers[i], j) =>
                /\ result.abstained = FALSE
                /\ Resolved(j)

\* the only marker names page 99 of a chunk of page 5: the result is grounded
\* and reports page 5
C26_Witness ==
    /\ Returned /\ Generated
    /\ Len(Markers) = 1
    /\ Markers[1].page_number = 99
    /\ \E j \in DOMAIN retrieved :
          /\ Cites(Markers[1], j)
          /\ retrieved[j].doc.metadata.page_number = 5
    /\ result.abstained = FALSE
    /\ Len(result.cited_chunks) = 1
    /\ result.cited_chunks[1].page_number = 5

\* C27: the context of the prompt holds the first max_context_chunks items of
\* retrieved, in the order of retrieved, and no other; a marker that names a
\* retrieved chunk left out of the context still resolves: the chunk is in
\* cited_chunks and the result is grounded.
C27_ContextPrefix ==
    /\ Generated =>
          /\ Len(prompt.context) <= cfg.max_context_chunks
          /\ Len(prompt.context) <= Len(retrieved)
          /\ \/ Len(prompt.context) = cfg.max_context_chunks
             \/ Len(prompt.context) = Len(retrieved)
          /\ \A n \in DOMAIN prompt.context :
                /\ prompt.context[n].chunk_id =
                       retrieved[n].doc.metadata.chunk_id
                /\ prompt.context[n].text = retrieved[n].doc.page_content
    /\ Returned /\ Generated =>
          \A i \in DOMAIN Markers, j \in DOMAIN retrieved :
              Cites(Markers[i], j) /\ j > cfg.max_context_chunks =>
                  /\ result.abstained = FALSE
                  /\ Resolved(j)

\* two chunks retrieved, one shown to the model, and the response cites the
\* other one only
C27_Witness ==
    /\ Returned /\ Generated
    /\ cfg.max_context_chunks = 1
    /\ Len(retrieved) = 2
    /\ Len(prompt.context) = 1
    /\ Len(Markers) = 1
    /\ Cites(Markers[1], 2)
    /\ ~Cites(Markers[1], 1)
    /\ result.abstained = FALSE
    /\ Len(result.cited_chunks) = 1
    /\ result.cited_chunks[1].chunk_id = retrieved[2].doc.metadata.chunk_id

====
